---- MODULE Spec2Model ----
(***************************************************************************)
(* A model of the GoEvergreen Cloudflare worker: the fetch handler of      *)
(* src/index.js, the router (handlers/router.js), the WordPress content    *)
(* fetcher and extractor (utils/wordpress.js), the analytics recorder      *)
(* (utils/analytics.js), the persistence layer (utils/database.js) and the *)
(* D1 tables of migrations/0001_initial.sql.                               *)
(*                                                                         *)
(* Strings are sequences of one-character strings, so that trim,           *)
(* toLowerCase, includes, startsWith, split and substring are computed as  *)
(* JavaScript computes them.                                               *)
(***************************************************************************)
EXTENDS Integers, Sequences, FiniteSets, TLC

VARIABLES
  now,          \* the clock, in ticks (TicksPerDay ticks to a calendar day)
  subscribers,  \* table newsletter_subscribers: a set of rows
  subSeq,       \* AUTOINCREMENT counter of newsletter_subscribers
  contacts,     \* table contact_submissions: a set of rows
  contactSeq,   \* AUTOINCREMENT counter of contact_submissions
  pageViews,    \* table page_views
  pvSeq,        \* AUTOINCREMENT counter of page_views
  sessions,     \* table user_sessions
  events,       \* table events
  evSeq,        \* AUTOINCREMENT counter of events
  rec,          \* the page-view recordings in flight, by recorder
  recorded,     \* the recordings that have finished, oldest first
  req,          \* the request the fetch handler handled last
  env,          \* the environment bindings of that request
  resp,         \* the response the fetch handler returned for it
  ret,          \* what the last persistence operation returned to its caller
  doc,          \* the texts given to the page renderer and the head it emitted
  fetcher,      \* the call of the content fetcher in progress
  form          \* the newsletter form of a rendered page, in the browser

vars ==
  <<now, subscribers, subSeq, contacts, contactSeq, pageViews, pvSeq,
    sessions, events, evSeq, rec, recorded, req, env, resp,
                 ret, doc, fetcher, form>>

(***************************************************************************)
(* Bounds of the model.                                                    *)
(***************************************************************************)
MaxPad == 1            \* most spaces put around an input string
MaxSubscriberId == 2   \* most rows ever inserted into newsletter_subscribers
MaxContactId == 2      \* most rows ever inserted into contact_submissions
MaxTicks == 2          \* most single ticks the clock makes
MaxPageViewId == 3     \* most rows ever inserted into page_views
MaxEventId == 1        \* most rows ever inserted into events
MaxTracked == 1        \* most recordings the persistence layer is asked for
MaxTextLen == 1        \* most characters of a text given to the renderer
NumRecorders == 2      \* most page-view recordings in flight
TicksPerDay == 2       \* ticks of the clock to a calendar day

(***************************************************************************)
(* Program constants.                                                      *)
(***************************************************************************)
EmailMaxLen == 255
NameMaxLen == 100
MessageMaxLen == 1000

(***************************************************************************)
(* JavaScript strings.                                                     *)
(***************************************************************************)
Min(a, b) == IF a < b THEN a ELSE b

Spaces(n) == [i \in 1..n |-> " "]

Filler(c, n) == [i \in 1..n |-> c]

\* String.prototype.trim: the string without its leading and trailing spaces.
Trim(s) ==
  IF \A i \in 1..Len(s) : s[i] = " " THEN <<>>
  ELSE LET first == CHOOSE i \in 1..Len(s) :
                      s[i] # " " /\ \A j \in 1..(i - 1) : s[j] = " "
           last == CHOOSE i \in 1..Len(s) :
                      s[i] # " " /\ \A j \in (i + 1)..Len(s) : s[j] = " "
       IN SubSeq(s, first, last)

LowerChar(c) == IF c = "A" THEN "a" ELSE IF c = "N" THEN "n" ELSE c

\* String.prototype.toLowerCase
ToLowerCase(s) == [i \in 1..Len(s) |-> LowerChar(s[i])]

\* String.prototype.substring(0, n)
Substring0(s, n) == SubSeq(s, 1, Min(n, Len(s)))

\* String.prototype.includes
Includes(s, sub) ==
  \E i \in 1..(Len(s) - Len(sub) + 1) : SubSeq(s, i, i + Len(sub) - 1) = sub

\* String.prototype.startsWith
StartsWith(s, prefix) ==
  Len(s) >= Len(prefix) /\ SubSeq(s, 1, Len(prefix)) = prefix

(***************************************************************************)
(* Values of a parsed request body: a string, a (non-zero) number, or      *)
(* undefined (the field is absent).                                        *)
(***************************************************************************)
JStr(s) == [t |-> "string", v |-> s]
JNum == [t |-> "number", v |-> <<>>]
JUndef == [t |-> "undefined", v |-> <<>>]

\* JavaScript's !x for such a value
Falsy(x) == x.t = "undefined" \/ (x.t = "string" /\ x.v = <<>>)

(***************************************************************************)
(* Paths.                                                                  *)
(***************************************************************************)
AssetsPrefix == <<"/","a","s","s","e","t","s","/">>
ApiPrefix == <<"/","a","p","i","/">>
NewsletterPath == <<"/","n","e","w","s","l","e","t","t","e","r","/","s","u","b","s","c","r","i","b","e">>
SitemapPath == <<"/","s","i","t","e","m","a","p",".","x","m","l">>
RootPath == <<"/">>
WellnessPath == <<"/","w","e","l","l","n","e","s","s","-","g","u","i","d","e","s">>
PrivacyPath == <<"/","p","r","i","v","a","c","y","-","p","o","l","i","c","y">>
DonatePath == <<"/","d","o","n","a","t","e">>
ContactPath == <<"/","c","o","n","t","a","c","t","-","u","s">>
BenefitsPath == <<"/","b","e","n","e","f","i","t","s","-","o","f","-","e","x","e","r","c","i","s","e","s">>
AboutPath == <<"/","a","b","o","u","t">>
BlogPath == <<"/","b","l","o","g">>
ReviewsPath == <<"/","r","e","v","i","e","w","s">>
LogoPath == <<"/","a","s","s","e","t","s","/","l","o","g","o",".","j","p","g">>
FaviconPath == <<"/","a","s","s","e","t","s","/","f","a","v","i","c","o","n",".","i","c","o">>
OtherAssetPath == <<"/","a","s","s","e","t","s","/","x">>
ApiNewsletterPath == <<"/","a","p","i","/","n","e","w","s","l","e","t","t","e","r">>
ApiContactPath == <<"/","a","p","i","/","c","o","n","t","a","c","t">>
ApiAnalyticsPath == <<"/","a","p","i","/","a","n","a","l","y","t","i","c","s">>
ApiOtherPath == <<"/","a","p","i","/","x">>
UnknownPath == <<"/","s","h","o","p">>
AdminPath == <<"/","w","p","-","a","d","m","i","n">>
SegNewsletter == <<"n","e","w","s","l","e","t","t","e","r">>
SegContact == <<"c","o","n","t","a","c","t">>
SegAnalytics == <<"a","n","a","l","y","t","i","c","s">>
WordSitemap == <<"s","i","t","e","m","a","p">>

(***************************************************************************)
(* Responses and store writes.  A response carries its status, content     *)
(* type, a kind, its message text, the page content it renders (or         *)
(* NoContent), the sitemap's page list, its cache policy and its hardening *)
(* headers.                                                                *)
(***************************************************************************)
NoWrite == [table |-> "none"]

NoContent == [source |-> "none", key |-> "none", from |-> "none", len |-> 0]

Response(status, ctype, kind, success, text, content, pages, cache, headers) ==
  [status |-> status, ctype |-> ctype, kind |-> kind, success |-> success,
   text |-> text, content |-> content, pages |-> pages, cache |-> cache,
   headers |-> headers]

\* new Response(JSON.stringify({...}), {status, headers: application/json})
JsonResponse(status, success, text) ==
  Response(status, "application/json", "json", success, text, NoContent, <<>>,
           "none", {})

NoResponse ==
  Response(0, "none", "none", FALSE, "none", NoContent, <<>>, "none", {})

\* an exception that leaves the fetch handler instead of a response
Unhandled(text) ==
  Response(0, "none", "exception", FALSE, text, NoContent, <<>>, "none", {})

Outcome(response, write, track) ==
  [resp |-> response, write |-> write, track |-> track]

(***************************************************************************)
(* handleNewsletterSubscription (router.js).                               *)
(***************************************************************************)
NewsletterCaught ==
  Outcome(JsonResponse(500, FALSE, "Subscription failed. Please try again."),
          NoWrite, FALSE)

NewsletterInvalid(email) ==
  Falsy(email) \/ ~Includes(email.v, <<"@">>) \/ Len(email.v) > EmailMaxLen

handleNewsletterSubscription(r, e) ==
  LET json == r.ctype = "application/json"
      email == r.email
      name == IF Falsy(r.name) THEN JStr(<<>>) ELSE r.name
  IN
  \* request.json() / request.formData() throws on a body it cannot parse
  IF ~r.parsable THEN NewsletterCaught
  ELSE IF Falsy(email)
    THEN Outcome(JsonResponse(400, FALSE, "Valid email required"), NoWrite, FALSE)
  \* email.includes is not a function for a value that is not a string
  ELSE IF email.t # "string" THEN NewsletterCaught
  ELSE IF NewsletterInvalid(email)
    THEN Outcome(JsonResponse(400, FALSE, "Valid email required"), NoWrite, FALSE)
  \* name.trim is not a function for a truthy value that is not a string
  ELSE IF name.t # "string" THEN NewsletterCaught
  \* env.DB.prepare(...) throws without the binding; run() throws on a store error
  ELSE IF e.db # "ok" THEN NewsletterCaught
  ELSE Outcome(
         JsonResponse(200, TRUE,
                      "Successfully subscribed to our wellness newsletter!"),
         [table |-> "newsletter_subscribers",
          email |-> ToLowerCase(Trim(email.v)),
          name |-> Substring0(Trim(name.v), NameMaxLen)],
         FALSE)

(***************************************************************************)
(* handleContactAPI (router.js), for a POST.                               *)
(***************************************************************************)
ContactCaught ==
  Outcome(JsonResponse(500, FALSE, "Failed to submit. Please try again."),
          NoWrite, FALSE)

\* handleContactAPI capping the message before it is trimmed
handleContactAPICapFirst(r, e) ==
  IF ~(r.parsable /\ r.ctype = "application/json") THEN ContactCaught
  ELSE IF Falsy(r.name) \/ Falsy(r.email) \/ Falsy(r.message)
    THEN Outcome(JsonResponse(400, FALSE, "All fields are required"), NoWrite, FALSE)
  ELSE IF r.email.t # "string" THEN ContactCaught
  ELSE IF ~Includes(r.email.v, <<"@">>) \/ Len(r.email.v) > EmailMaxLen
    THEN Outcome(JsonResponse(400, FALSE, "Valid email required"), NoWrite, FALSE)
  ELSE IF r.name.t # "string" \/ r.message.t # "string" THEN ContactCaught
  ELSE IF e.db # "ok" THEN ContactCaught
  ELSE Outcome(
         JsonResponse(200, TRUE,
                      "Thank you for contacting us! We'll get back to you soon."),
         [table |-> "contact_submissions",
          name |-> Substring0(Trim(r.name.v), NameMaxLen),
          email |-> ToLowerCase(Trim(r.email.v)),
          message |-> Trim(Substring0(r.message.v, MessageMaxLen))],
         FALSE)

handleContactAPI(r, e) ==
  \* request.json() throws unless the body is JSON
  IF ~(r.parsable /\ r.ctype = "application/json") THEN ContactCaught
  ELSE IF Falsy(r.name) \/ Falsy(r.email) \/ Falsy(r.message)
    THEN Outcome(JsonResponse(400, FALSE, "All fields are required"), NoWrite, FALSE)
  ELSE IF r.email.t # "string" THEN ContactCaught
  ELSE IF ~Includes(r.email.v, <<"@">>) \/ Len(r.email.v) > EmailMaxLen
    THEN Outcome(JsonResponse(400, FALSE, "Valid email required"), NoWrite, FALSE)
  ELSE IF r.name.t # "string" \/ r.message.t # "string" THEN ContactCaught
  ELSE IF e.db # "ok" THEN ContactCaught
  ELSE Outcome(
         JsonResponse(200, TRUE,
                      "Thank you for contacting us! We'll get back to you soon."),
         [table |-> "contact_submissions",
          name |-> Substring0(Trim(r.name.v), NameMaxLen),
          email |-> ToLowerCase(Trim(r.email.v)),
          message |-> Substring0(Trim(r.message.v), MessageMaxLen)],
         FALSE)

(***************************************************************************)
(* The upstream page, as the extractor sees it.  A page carries its        *)
(* stylesheet <link> tags and <style> blocks (each of a kind), what each   *)
(* of the eight content selectors matches in the processed HTML (NoMatch,  *)
(* or the trimmed length of the match and its length once nested header,   *)
(* footer and main-nav blocks are removed), and the length of the          *)
(* processed HTML itself.                                                  *)
(***************************************************************************)
MAX_RETRIES == 2
MinContainerLen == 100
MinStrippedLen == 50
MinContentLen == 50

\* the pieces of the cssSection template literal of processWordPressHTML
CssOpenLen == 32
CssSepLen == 9
CssCloseLen == 26
CssTailLen == 7
StyleTagsLen == 15

\* sizes of the inputs
LinkLen == 23          \* length of one stylesheet <link> tag
StyleLen == 1          \* length of the text of one <style> block
MaxLinks == 1          \* most stylesheet links of a page
MaxStyles == 1         \* most style blocks of a page
MaxContainers == 2     \* most content containers present in a page

contentSelectors ==
  <<"main", "article", "entry-content", "post-content", "content-div",
    "content-id", "content-section", "body">>

NoMatch == [raw |-> -1, stripped |-> -1]

\* extractCSSLinks: the links that mention neither wp-admin nor login
KeepLink(kind) == kind = "theme"

extractCSSLinks(page) == SelectSeq(page.links, KeepLink)

\* extractInlineStyles: the length of the kept style texts, each followed
\* by a newline, trimmed
KeepStyle(kind) == kind = "theme"

extractInlineStyles(page) ==
  LET n == Len(SelectSeq(page.styles, KeepStyle))
  IN IF n = 0 THEN 0 ELSE n * (StyleLen + 1) - 1

\* the final fallback of extractMainContent: the body's text, else the HTML
BodyFallback(page) ==
  IF page.cands[Len(contentSelectors)] # NoMatch
  THEN [from |-> "body-unstripped", len |-> page.cands[Len(contentSelectors)].raw]
  ELSE [from |-> "html", len |-> page.htmlLen]

\* the selection that keeps looking after a container has passed
SelectLast(page, i) ==
  LET passing == {k \in i..Len(contentSelectors) :
                    /\ page.cands[k] # NoMatch
                    /\ page.cands[k].raw > MinContainerLen
                    /\ page.cands[k].stripped > MinStrippedLen}
  IN IF passing = {} THEN BodyFallback(page)
     ELSE LET k == CHOOSE m \in passing : \A n \in passing : n <= m
          IN [from |-> contentSelectors[k], len |-> page.cands[k].stripped]

RECURSIVE SelectFrom(_, _)
SelectFrom(page, i) ==
  IF i > Len(contentSelectors) THEN BodyFallback(page)
  ELSE IF /\ page.cands[i] # NoMatch
          /\ page.cands[i].raw > MinContainerLen
          /\ page.cands[i].stripped > MinStrippedLen
       THEN [from |-> contentSelectors[i], len |-> page.cands[i].stripped]
       ELSE SelectFrom(page, i + 1)

extractMainContent(page) == SelectFrom(page, 1)

\* getFallbackContent: fallbackContent[route] || fallbackContent['home']
FallbackRoutes ==
  {"home", "wellness-guides", "benefits-of-exercises", "about", "contact-us"}

getFallbackContent(route) ==
  [source |-> "fallback",
   key |-> IF route \in FallbackRoutes THEN route ELSE "home",
   from |-> "table", len |-> 0]

\* the length of (cssSection + mainContent).trim()
WithCssLen(nLinks, inline, mainLen) ==
  CssOpenLen + CssSepLen
  + (IF nLinks = 0 THEN 0 ELSE nLinks * LinkLen + (nLinks - 1) * CssSepLen)
  + CssSepLen + (IF inline > 0 THEN StyleTagsLen + inline ELSE 0)
  + CssSepLen + CssCloseLen
  + (IF mainLen > 0 THEN CssTailLen + mainLen ELSE 0)

InsufficientContent(len) == len < MinContentLen

processWordPressHTML(page, route) ==
  LET cssLinks == extractCSSLinks(page)
      inlineStyles == extractInlineStyles(page)
      main == extractMainContent(page)
      len == IF Len(cssLinks) > 0 \/ inlineStyles > 0
             THEN WithCssLen(Len(cssLinks), inlineStyles, main.len)
             ELSE main.len
  IN IF InsufficientContent(len) THEN getFallbackContent(route)
     ELSE [source |-> "upstream", key |-> route, from |-> main.from,
           len |-> len]

(***************************************************************************)
(* getPageContent: up to MAX_RETRIES attempts, each ending in a timeout    *)
(* (abort), a network error, a response that is not ok, a blank body, or   *)
(* a page.                                                                 *)
(***************************************************************************)
NoPage == [links |-> <<>>, styles |-> <<>>, cands |-> <<>>, htmlLen |-> 0]

UTimeout == [kind |-> "timeout", page |-> NoPage]
UNetwork == [kind |-> "network", page |-> NoPage]
UHttpError == [kind |-> "http-error", page |-> NoPage]
UBlank == [kind |-> "blank", page |-> NoPage]
UUnused == [kind |-> "unused", page |-> NoPage]
UPage(p) == [kind |-> "page", page |-> p]

AttemptFails(o) == o.kind # "page"

RECURSIVE Attempts(_, _, _)
Attempts(route, upstream, attempt) ==
  IF attempt > MAX_RETRIES THEN getFallbackContent(route)
  ELSE IF AttemptFails(upstream[attempt])
       THEN Attempts(route, upstream, attempt + 1)
       ELSE processWordPressHTML(upstream[attempt].page, route)

getPageContent(route, e) == Attempts(route, e.upstream, 1)

(***************************************************************************)
(* The router (handlers/router.js).                                        *)
(***************************************************************************)
ROUTES ==
  << <<RootPath, "home">>,
     <<WellnessPath, "wellness-guides">>,
     <<PrivacyPath, "privay-policy">>,
     <<DonatePath, "donate">>,
     <<ContactPath, "contact-us">>,
     <<BenefitsPath, "benefits-of-exercises">>,
     <<AboutPath, "about">>,
     <<BlogPath, "blog">>,
     <<ReviewsPath, "reveiws">>,
     <<NewsletterPath, "newsletter-subscribe">>,
     <<SitemapPath, "sitemap">> >>

\* Object.keys(ROUTES), in insertion order
RouteKeys == [i \in 1..Len(ROUTES) |-> ROUTES[i][1]]

\* ROUTES[pathname], with no default
RouteOfNoDefault(pathname) ==
  IF \E i \in 1..Len(ROUTES) : ROUTES[i][1] = pathname
  THEN ROUTES[CHOOSE i \in 1..Len(ROUTES) : ROUTES[i][1] = pathname][2]
  ELSE "not-found"

\* ROUTES[pathname] || 'home'
RouteOf(pathname) ==
  IF \E i \in 1..Len(ROUTES) : ROUTES[i][1] = pathname
  THEN ROUTES[CHOOSE i \in 1..Len(ROUTES) : ROUTES[i][1] = pathname][2]
  ELSE "home"

\* pathname.split('/')[k], for a path with at least k slashes
Segment(s, k) ==
  LET slashes == {i \in 1..Len(s) : s[i] = "/"}
      start == CHOOSE i \in slashes :
                 Cardinality({j \in slashes : j <= i}) = k
      later == {i \in slashes : i > start}
      stop == IF later = {} THEN Len(s) + 1
              ELSE CHOOSE i \in later : \A j \in later : i <= j
  IN SubSeq(s, start + 1, stop - 1)

\* createErrorResponse of router.js: a JSON body {error, timestamp}
createErrorResponse(message, status) == JsonResponse(status, FALSE, message)

Redirect ==
  Response(302, "none", "redirect", FALSE, "none", NoContent, <<>>,
           "public, max-age=86400", {})

handleStaticAssets(pathname) ==
  IF pathname = LogoPath \/ pathname = FaviconPath
  THEN Outcome(Redirect, NoWrite, FALSE)
  ELSE Outcome(createErrorResponse("Asset not found", 404), NoWrite, FALSE)

handleNewsletterAPI(r, e) ==
  IF r.method # "POST"
  THEN Outcome(createErrorResponse("Method not allowed", 405), NoWrite, FALSE)
  ELSE handleNewsletterSubscription(r, e)

\* the contact endpoint without its test of the method
handleContactRouteAnyMethod(r, e) == handleContactAPI(r, e)

handleContactRoute(r, e) ==
  IF r.method # "POST"
  THEN Outcome(createErrorResponse("Method not allowed", 405), NoWrite, FALSE)
  ELSE handleContactAPI(r, e)

handleAnalyticsAPI(r, e) ==
  IF e.db # "ok"
  THEN Outcome(createErrorResponse("Analytics unavailable", 500), NoWrite, FALSE)
  ELSE Outcome(JsonResponse(200, TRUE, "analytics"), NoWrite, FALSE)

handleAPI(r, e) ==
  LET resource == Segment(r.path, 2)
  IN IF resource = SegNewsletter THEN handleNewsletterAPI(r, e)
     ELSE IF resource = SegContact THEN handleContactRoute(r, e)
     ELSE IF resource = SegAnalytics THEN handleAnalyticsAPI(r, e)
     ELSE Outcome(createErrorResponse("API endpoint not found", 404),
                  NoWrite, FALSE)

\* a filter that drops the newsletter path only
SitemapKeepsSitemap(route) == ~Includes(route, SegNewsletter)

\* the filter of createSitemap
SitemapKeeps(route) ==
  ~Includes(route, SegNewsletter) /\ ~Includes(route, WordSitemap)

createSitemap(e) ==
  Response(200, "application/xml", "sitemap", FALSE, "none", NoContent,
           SelectSeq(RouteKeys, SitemapKeeps), "public, max-age=86400", {})

HardeningHeaders ==
  {"X-Content-Type-Options", "X-Frame-Options", "X-XSS-Protection",
   "Referrer-Policy"}

\* createCustomResponse (utils/response.js)
createCustomResponse(content, pathname, e) ==
  Response(200, "text/html; charset=utf-8", "page", FALSE, "none", content,
           <<>>, "public, max-age=300, s-maxage=3600", HardeningHeaders)

\* the catch of handleRequest: createErrorResponse(error.message, 500)
RouterCaught(message) ==
  Outcome(createErrorResponse(message, 500), NoWrite, FALSE)

\* a router that awaits the recording and lets its failure reach the catch
handleRequestAwaitsTracking(r, e) ==
  IF StartsWith(r.path, AssetsPrefix) THEN handleStaticAssets(r.path)
  ELSE IF StartsWith(r.path, ApiPrefix) THEN handleAPI(r, e)
  ELSE IF r.path = NewsletterPath /\ r.method = "POST"
    THEN handleNewsletterSubscription(r, e)
  ELSE IF e.fault = "ctx" THEN RouterCaught("TypeError: ctx")
  ELSE IF e.db # "ok" THEN RouterCaught("TypeError: db")
  ELSE IF RouteOf(r.path) = "sitemap"
    THEN Outcome(createSitemap(e), NoWrite, TRUE)
  ELSE Outcome(createCustomResponse(getPageContent(RouteOf(r.path), e),
                                    r.path, e),
               NoWrite, TRUE)

handleRequest(r, e) ==
  IF StartsWith(r.path, AssetsPrefix) THEN handleStaticAssets(r.path)
  ELSE IF StartsWith(r.path, ApiPrefix) THEN handleAPI(r, e)
  ELSE IF r.path = NewsletterPath /\ r.method = "POST"
    THEN handleNewsletterSubscription(r, e)
  \* ctx.waitUntil throws when the execution context is unusable
  ELSE IF e.fault = "ctx" THEN RouterCaught("TypeError: ctx")
  ELSE IF RouteOf(r.path) = "sitemap"
    THEN Outcome(createSitemap(e), NoWrite, TRUE)
  ELSE Outcome(createCustomResponse(getPageContent(RouteOf(r.path), e),
                                    r.path, e),
               NoWrite, TRUE)

(***************************************************************************)
(* The worker's fetch handler (src/index.js).                              *)
(***************************************************************************)
\* createErrorResponse of index.js: the branded HTML error page
IndexErrorResponse(message, status) ==
  Response(status, "text/html; charset=utf-8", "error-page", FALSE, message,
           NoContent, <<>>, "no-cache, no-store, must-revalidate", {})

\* the catch of fetch
FetchCaught(message) ==
  Outcome(IndexErrorResponse(message, 500), NoWrite, FALSE)

\* fetch without its try/catch
fetchNoCatch(r, e) ==
  IF ~e.present
  THEN Outcome(IndexErrorResponse("Service temporarily unavailable", 500),
               NoWrite, FALSE)
  ELSE IF e.fault = "env"
    THEN Outcome(Unhandled("TypeError: env"), NoWrite, FALSE)
  ELSE LET out == handleRequest(r, e)
       IN [out EXCEPT !.resp.headers = @ \cup HardeningHeaders]

\* initDatabase (utils/database.js): false without a binding and when the
\* test query or the table creation fails, never an exception
initDatabase(db) == db = "ok"

\* a fetch that gives up when the store cannot be initialised
fetchNeedsDatabase(r, e) ==
  IF ~e.present
  THEN Outcome(IndexErrorResponse("Service temporarily unavailable", 500),
               NoWrite, FALSE)
  ELSE IF e.fault = "env"
    THEN FetchCaught("Internal server error: TypeError: env")
  ELSE IF ~initDatabase(e.db)
    THEN FetchCaught("Internal server error: Database initialization failed")
  ELSE LET out == handleRequest(r, e)
       IN [out EXCEPT !.resp.headers = @ \cup HardeningHeaders]

fetch(r, e) ==
  IF ~e.present
  THEN Outcome(IndexErrorResponse("Service temporarily unavailable", 500),
               NoWrite, FALSE)
  \* assigning the defaults throws when the bindings object is not writable
  ELSE IF e.fault = "env"
    THEN FetchCaught("Internal server error: TypeError: env")
  \* the outcome of the initialisation is not looked at
  ELSE LET initialized == e.db # "missing" /\ initDatabase(e.db)
           out == handleRequest(r, e)
       IN [out EXCEPT !.resp.headers = @ \cup HardeningHeaders]

(***************************************************************************)
(* Time.  The clock counts ticks, TicksPerDay to the calendar day, from    *)
(* 1970-01-01T00:00.  A timestamp is a text: the date, the separator and   *)
(* the time of day; the separator is "T" in Date.toISOString() and a space *)
(* in SQLite's CURRENT_TIMESTAMP.                                          *)
(***************************************************************************)
RetentionDays == 90

LongLapse == RetentionDays * TicksPerDay - 1

DayOf(t) == t \div TicksPerDay

TimeOfDay(t) == t % TicksPerDay

toISOString(t) == [date |-> DayOf(t), sep |-> "T", time |-> TimeOfDay(t)]

CURRENT_TIMESTAMP(t) == [date |-> DayOf(t), sep |-> " ", time |-> TimeOfDay(t)]

CharCode(c) == IF c = " " THEN 32 ELSE 84

\* a < b between two TEXT values, as SQLite compares them: by the first
\* character that differs
TextLess(a, b) ==
  \/ a.date < b.date
  \/ a.date = b.date /\ CharCode(a.sep) < CharCode(b.sep)
  \/ a.date = b.date /\ a.sep = b.sep /\ a.time < b.time

WeekDays ==
  << <<"T", "h", "u">>, <<"F", "r", "i">>, <<"S", "a", "t">>,
     <<"S", "u", "n">>, <<"M", "o", "n">>, <<"T", "u", "e">>,
     <<"W", "e", "d">> >>

Months ==
  << [name |-> <<"J", "a", "n">>, days |-> 31],
     [name |-> <<"F", "e", "b">>, days |-> 28],
     [name |-> <<"M", "a", "r">>, days |-> 31],
     [name |-> <<"A", "p", "r">>, days |-> 30],
     [name |-> <<"M", "a", "y">>, days |-> 31],
     [name |-> <<"J", "u", "n">>, days |-> 30],
     [name |-> <<"J", "u", "l">>, days |-> 31],
     [name |-> <<"A", "u", "g">>, days |-> 31],
     [name |-> <<"S", "e", "p">>, days |-> 30],
     [name |-> <<"O", "c", "t">>, days |-> 31],
     [name |-> <<"N", "o", "v">>, days |-> 30],
     [name |-> <<"D", "e", "c">>, days |-> 31] >>

Digits == <<"0", "1", "2", "3", "4", "5", "6", "7", "8", "9">>

TwoDigits(n) == <<Digits[(n \div 10) + 1], Digits[(n % 10) + 1]>>

RECURSIVE MonthDay(_, _)
MonthDay(d, m) ==
  IF d < Months[m].days THEN [month |-> m, day |-> d + 1]
  ELSE MonthDay(d - Months[m].days, m + 1)

\* Date.toDateString(), for the days of 1970: "Thu Jan 01 1970"
toDateString(t) ==
  LET md == MonthDay(DayOf(t), 1)
  IN WeekDays[(DayOf(t) % 7) + 1] \o <<" ">> \o Months[md.month].name
     \o <<" ">> \o TwoDigits(md.day) \o <<" ", "1", "9", "7", "0">>

(***************************************************************************)
(* Session identifiers.  The SHA-256 digest is taken to be free of         *)
(* collisions on the strings hashed: an identifier is its preimage and the *)
(* number of hex digits kept.                                              *)
(***************************************************************************)
SessionIdLen == 16
HashLen == 32
SessionDataLen == 100
UserAgentMaxLen == 200

Unknown == <<"u", "n", "k", "n", "o", "w", "n">>

\* value || fallback, for a header value
HeaderOr(value, fallback) == IF value = <<>> THEN fallback ELSE value

NoSession == [sha256 |-> <<>>, hex |-> 0]

\* createSessionId of analytics.js
createSessionId(r, t) ==
  [sha256 |-> HeaderOr(r.ip, Unknown) \o <<"-">>
              \o HeaderOr(r.userAgent, Unknown) \o <<"-">> \o toDateString(t),
   hex |-> SessionIdLen]

\* the identifier getOrCreateSession of database.js computes
\* the session id hashed from the whole of the session data
getSessionIdOfWholeData(r, t) ==
  [sha256 |-> HeaderOr(r.ip, Unknown)
              \o Substring0(r.userAgent, UserAgentMaxLen)
              \o toDateString(t),
   hex |-> HashLen]

getOrCreateSessionId(r, t) ==
  [sha256 |-> Substring0(HeaderOr(r.ip, Unknown)
                         \o Substring0(r.userAgent, UserAgentMaxLen)
                         \o toDateString(t),
                         SessionDataLen),
   hex |-> HashLen]

\* 'anonymous-' + Date.now().toString(36)
Anonymous(t) == [sha256 |-> <<"anonymous">>, hex |-> t]

(***************************************************************************)
(* Page-view recordings.  A recording runs in steps, one per statement it  *)
(* awaits; impl tells whose trackPageView it is: that of analytics.js,     *)
(* which the router hands to ctx.waitUntil, or that of database.js.        *)
(***************************************************************************)
\* no persistence operation has returned yet
NoReturn ==
  [op |-> "none", db |-> "ok", email |-> <<>>, success |-> FALSE,
   error |-> "none", rows |-> {}, count |-> 0, raised |-> FALSE]

Idle ==
  [pc |-> "idle", impl |-> "none", path |-> <<>>, ip |-> <<>>, ua |-> <<>>,
   day |-> 0, timestamp |-> toISOString(0), sid |-> NoSession,
   computed |-> NoSession, found |-> FALSE, effect |-> "none",
   db |-> "ok", failed |-> "none", viewed |-> FALSE]

\* trackPageView of analytics.js, up to its first statement
trackPageView(path, r, t) ==
  [pc |-> "view", impl |-> "analytics", path |-> path, ip |-> r.ip,
   ua |-> r.userAgent, day |-> DayOf(t), timestamp |-> toISOString(t),
   sid |-> createSessionId(r, t), computed |-> createSessionId(r, t),
   found |-> FALSE, effect |-> "none", db |-> "ok", failed |-> "none",
   viewed |-> FALSE]

\* trackPageView of database.js, up to its first statement
trackPageViewDb(path, r, t) ==
  [pc |-> "select", impl |-> "database", path |-> path, ip |-> r.ip,
   ua |-> r.userAgent, day |-> DayOf(t), timestamp |-> toISOString(t),
   sid |-> getOrCreateSessionId(r, t),
   computed |-> getOrCreateSessionId(r, t),
   found |-> FALSE, effect |-> "none", db |-> "ok", failed |-> "none",
   viewed |-> FALSE]

Active == {k \in 1..NumRecorders : rec[k].pc # "idle"}

\* recorder k is free, and page_views has room for one more recording
CanRecord(k) ==
  /\ rec[k].pc = "idle"
  /\ pvSeq + Cardinality(Active) < MaxPageViewId
  /\ Len(recorded) + Cardinality(Active) < MaxPageViewId

\* what a finished recording leaves in the log
Finished(r) ==
  [impl |-> r.impl, ip |-> r.ip, ua |-> r.ua, day |-> r.day,
   sid |-> r.computed, effect |-> r.effect, failed |-> r.failed,
   viewed |-> r.viewed]

\* INSERT INTO page_views (...); the last statement of database.js's
\* trackPageView, the first of analytics.js's
InsertPageView(k) ==
  /\ rec[k].pc = "view"
  /\ rec[k].db = "ok"
  /\ pageViews' = pageViews
       \cup {[id |-> pvSeq + 1, path |-> rec[k].path,
              user_agent |-> Substring0(rec[k].ua,
                               IF rec[k].impl = "database"
                               THEN UserAgentMaxLen ELSE Len(rec[k].ua)),
              timestamp |-> rec[k].timestamp, session_id |-> rec[k].sid]}
  /\ pvSeq' = pvSeq + 1
  /\ IF rec[k].impl = "database"
     THEN /\ rec' = [rec EXCEPT ![k] = Idle]
          /\ recorded' = Append(recorded,
                                Finished([rec[k] EXCEPT !.viewed = TRUE]))
     ELSE /\ rec' = [rec EXCEPT ![k].pc = "select", ![k].viewed = TRUE]
          /\ UNCHANGED recorded
  /\ UNCHANGED <<now, subscribers, subSeq, contacts, contactSeq, sessions,
                 events, evSeq, req, env, resp,
                 ret, doc, fetcher, form>>

\* SELECT id FROM user_sessions WHERE id = ?
SelectSession(k) ==
  /\ rec[k].pc = "select"
  /\ rec[k].db = "ok"
  /\ rec' = [rec EXCEPT ![k].pc = "write",
                        ![k].found = \E s \in sessions : s.id = rec[k].sid]
  /\ UNCHANGED <<now, subscribers, subSeq, contacts, contactSeq, pageViews,
                 pvSeq, sessions, events, evSeq, recorded, req, env, resp,
                 ret, doc, fetcher, form>>

\* UPDATE user_sessions SET last_activity = ?, page_count = page_count + 1
UpdateSession(id, t) ==
  {IF s.id = id
   THEN [s EXCEPT !.last_activity = toISOString(t), !.page_count = @ + 1]
   ELSE s : s \in sessions}

\* INSERT INTO user_sessions (id, country, user_agent[, page_count])
InsertSession(id, ua, t) ==
  sessions
  \cup {[id |-> id, created_at |-> CURRENT_TIMESTAMP(t),
         last_activity |-> CURRENT_TIMESTAMP(t), page_count |-> 1,
         user_agent |-> ua]}

\* the UPDATE or INSERT that follows the SELECT: the last statement of
\* updateSession (analytics.js), the second of getOrCreateSession
\* (database.js), whose catch returns an anonymous identifier
WriteSession(k) ==
  LET r == rec[k]
      exists == \E s \in sessions : s.id = r.sid
      effect == IF r.found THEN (IF exists THEN "incremented" ELSE "none")
                ELSE (IF exists THEN "conflict" ELSE "created")
      after == [r EXCEPT !.effect = effect,
                         !.sid = IF effect = "conflict" /\ r.impl = "database"
                                 THEN Anonymous(now) ELSE @]
  IN /\ r.pc = "write"
     /\ r.db = "ok"
     /\ sessions' = IF effect = "incremented" THEN UpdateSession(r.sid, now)
                    ELSE IF effect = "created"
                      THEN InsertSession(r.sid, Substring0(r.ua, UserAgentMaxLen), now)
                    ELSE sessions
     /\ IF r.impl = "database"
        THEN /\ rec' = [rec EXCEPT ![k] = [after EXCEPT !.pc = "view"]]
             /\ UNCHANGED recorded
        ELSE /\ rec' = [rec EXCEPT ![k] = Idle]
             /\ recorded' = Append(recorded, Finished(after))
     /\ UNCHANGED <<now, subscribers, subSeq, contacts, contactSeq,
                    pageViews, pvSeq, events, evSeq, req, env, resp,
                 ret, doc, fetcher, form>>

\* trackPageView of database.js called with request r
TrackDb(k, r) ==
  /\ CanRecord(k)
  /\ rec' = [rec EXCEPT ![k] = trackPageViewDb(r.path, r, now)]
  /\ UNCHANGED <<now, subscribers, subSeq, contacts, contactSeq, pageViews,
                 pvSeq, sessions, events, evSeq, recorded, req, env, resp,
                 ret, doc, fetcher, form>>

\* trackEvent (analytics.js)
trackEvent(name) ==
  /\ evSeq < MaxEventId
  /\ events' = events
       \cup {[id |-> evSeq + 1, event_name |-> name,
              timestamp |-> toISOString(now)]}
  /\ evSeq' = evSeq + 1
  /\ UNCHANGED <<now, subscribers, subSeq, contacts, contactSeq, pageViews,
                 pvSeq, sessions, rec, recorded, req, env, resp,
                 ret, doc, fetcher, form>>

\* a statement of recording k fails, the binding being unusable or the store
\* rejecting the call: the catch of trackPageView or updateSession
\* (analytics.js) ends the recording; the catch of getOrCreateSession
\* (database.js) returns an anonymous identifier and the page view is
\* inserted under it, the catch of trackPageView (database.js) ends it
RecordFails(k) ==
  LET r == rec[k]
      failing == [r EXCEPT !.failed = r.pc]
  IN /\ r.pc # "idle"
     /\ IF r.impl = "database" /\ r.pc # "view"
        THEN /\ rec' = [rec EXCEPT ![k] = [failing EXCEPT !.pc = "view",
                                                          !.sid = Anonymous(now)]]
             /\ UNCHANGED recorded
        ELSE /\ rec' = [rec EXCEPT ![k] = Idle]
             /\ recorded' = Append(recorded, Finished(failing))
     /\ UNCHANGED <<now, subscribers, subSeq, contacts, contactSeq, pageViews,
                    pvSeq, sessions, events, evSeq, req, env, resp, ret, doc, fetcher, form>>

(***************************************************************************)
(* Retention: the scheduled handler of index.js and cleanupOldAnalytics of *)
(* analytics.js.                                                           *)
(***************************************************************************)
\* new Date(Date.now() - 90 * 24 * 60 * 60 * 1000).toISOString()
cutoffDate(t) == toISOString(t - RetentionDays * TicksPerDay)

scheduled ==
  /\ pageViews' = {p \in pageViews : ~TextLess(p.timestamp, cutoffDate(now))}
  /\ sessions' = {s \in sessions : ~TextLess(s.created_at, cutoffDate(now))}
  /\ UNCHANGED <<now, subscribers, subSeq, contacts, contactSeq, pvSeq,
                 events, evSeq, rec, recorded, req, env, resp,
                 ret, doc, fetcher, form>>

cleanupOldAnalytics ==
  /\ pageViews' = {p \in pageViews : ~TextLess(p.timestamp, cutoffDate(now))}
  /\ sessions' = {s \in sessions : ~TextLess(s.created_at, cutoffDate(now))}
  /\ events' = {v \in events : ~TextLess(v.timestamp, cutoffDate(now))}
  /\ UNCHANGED <<now, subscribers, subSeq, contacts, contactSeq, pvSeq,
                 evSeq, rec, recorded, req, env, resp,
                 ret, doc, fetcher, form>>

(***************************************************************************)
(* The store: applying the write of a handled request.                     *)
(***************************************************************************)
\* a plain INSERT, which keeps the row the address already has
InsertSubscriberKeepingOld(w) ==
  subscribers
  \cup {[id |-> subSeq + 1, email |-> w.email, name |-> w.name,
         subscribed_at |-> now, confirmed |-> FALSE, unsubscribed |-> FALSE]}

\* a replacement that carries the confirmation of the earlier row over
UpsertSubscriberKeepingConfirmed(w) ==
  {s \in subscribers : s.email # w.email}
  \cup {[id |-> subSeq + 1, email |-> w.email, name |-> w.name,
         subscribed_at |-> now,
         confirmed |-> \E s \in subscribers : s.email = w.email /\ s.confirmed,
         unsubscribed |-> FALSE]}

\* an upsert that updates the name and date of the row the address has
UpsertSubscriberKeepingFlag(w) ==
  IF \E s \in subscribers : s.email = w.email
  THEN {IF s.email = w.email
        THEN [s EXCEPT !.name = w.name, !.subscribed_at = now]
        ELSE s : s \in subscribers}
  ELSE subscribers
       \cup {[id |-> subSeq + 1, email |-> w.email, name |-> w.name,
              subscribed_at |-> now, confirmed |-> FALSE,
              unsubscribed |-> FALSE]}

\* INSERT OR REPLACE INTO newsletter_subscribers (email, name, subscribed_at)
InsertOrReplaceSubscriber(w) ==
  {s \in subscribers : s.email # w.email}
  \cup {[id |-> subSeq + 1, email |-> w.email, name |-> w.name,
         subscribed_at |-> now, confirmed |-> FALSE, unsubscribed |-> FALSE]}

\* INSERT INTO contact_submissions (name, email, message, submitted_at)
\* an insert that replaces the earlier rows of the same sender
InsertOrReplaceContact(w) ==
  {c \in contacts : c.email # w.email}
  \cup {[id |-> contactSeq + 1, name |-> w.name, email |-> w.email,
         message |-> w.message, submitted_at |-> now, status |-> "new"]}

InsertContact(w) ==
  contacts
  \cup {[id |-> contactSeq + 1, name |-> w.name, email |-> w.email,
         message |-> w.message, submitted_at |-> now, status |-> "new"]}

ApplyWrite(w) ==
  /\ IF w.table = "newsletter_subscribers"
     THEN /\ subSeq < MaxSubscriberId
          /\ subscribers' = InsertOrReplaceSubscriber(w)
          /\ subSeq' = subSeq + 1
     ELSE UNCHANGED <<subscribers, subSeq>>
  /\ IF w.table = "contact_submissions"
     THEN /\ contactSeq < MaxContactId
          /\ contacts' = InsertContact(w)
          /\ contactSeq' = contactSeq + 1
     ELSE UNCHANGED <<contacts, contactSeq>>

\* one request handled by the fetch handler, from arrival to response, out
\* being fetch(r, e) and k the recorder that runs the page-view tracking the
\* handler hands to ctx.waitUntil
Respond(r, e, out, k) ==
  /\ req' = r
  /\ env' = e
  /\ resp' = out.resp
  /\ ApplyWrite(out.write)
  /\ IF out.track
     THEN /\ CanRecord(k)
          /\ rec' = [rec EXCEPT ![k] = [trackPageView(r.path, r, now)
                                          EXCEPT !.db = e.db]]
     ELSE UNCHANGED rec
  /\ UNCHANGED <<now, pageViews, pvSeq, sessions, events, evSeq, recorded,
                 ret, doc, fetcher, form>>

\* time passes: one tick, or one tick less than the retention window
Tick ==
  \E d \in {1, LongLapse} :
    /\ IF d = 1 THEN now % LongLapse < MaxTicks ELSE now < LongLapse
    /\ now' = now + d
  /\ UNCHANGED <<subscribers, subSeq, contacts, contactSeq, pageViews, pvSeq,
                 sessions, events, evSeq, rec, recorded, req, env, resp,
                 ret, doc, fetcher, form>>

(***************************************************************************)
(* Requests and environments.                                              *)
(***************************************************************************)
Request(method, path, ctype, parsable, email, name, message) ==
  [method |-> method, path |-> path, ctype |-> ctype, parsable |-> parsable,
   email |-> email, name |-> name, message |-> message,
   ip |-> <<>>, userAgent |-> <<>>]

\* the request r with the headers CF-Connecting-IP and User-Agent
From(r, ip, userAgent) == [r EXCEPT !.ip = ip, !.userAgent = userAgent]

NoRequest == Request("none", <<>>, "none", FALSE, JUndef, JUndef, JUndef)

NoUpstream == [i \in 1..MAX_RETRIES |-> UUnused]

Env(present, db, fault, upstream) ==
  [present |-> present, db |-> db, fault |-> fault, upstream |-> upstream]

NoEnv == Env(FALSE, "none", "none", NoUpstream)

JsonType == "application/json"
FormType == "application/x-www-form-urlencoded"

\* a string of n characters that starts with first and ends with last
Text(first, n, last) ==
  IF n = 1 THEN <<first>> ELSE <<first>> \o Filler("b", n - 2) \o <<last>>

Padded(l, s, t) == Spaces(l) \o s \o Spaces(t)

ShortEmails ==
  {Padded(l, <<c, "@", "b">>, t) : l \in 0..MaxPad, t \in 0..MaxPad, c \in {"A", "a"}}

\* an address of n characters
LongEmail(n) == <<"a", "@">> \o Filler("b", n - 2)

EmailInputs ==
  {JUndef, JNum, JStr(<<>>), JStr(<<"a">>), JStr(<<" ">>)}
  \cup {JStr(s) : s \in ShortEmails}
  \cup {JStr(LongEmail(EmailMaxLen)), JStr(LongEmail(EmailMaxLen + 1)),
        JStr(Padded(1, LongEmail(EmailMaxLen - 1), 0)),
        JStr(Padded(0, LongEmail(EmailMaxLen), 1))}

ValidEmail == JStr(<<"A", "@", "b">>)

NameInputs ==
  {JUndef, JNum, JStr(<<" ">>)}
  \cup {JStr(Padded(1, Text("N", n, "z"), 1)) : n \in {1, NameMaxLen, NameMaxLen + 1}}

BaseName == JStr(<<" ", "N", " ">>)

MessageInputs ==
  {JUndef, JNum, JStr(<<" ">>)}
  \cup {JStr(Padded(l, Text("m", n, "z"), l)) :
          l \in 0..MaxPad, n \in {2, MessageMaxLen, MessageMaxLen + 1}}

BaseMessage == JStr(<<"m", "z">>)

NewsletterRequests ==
  {Request("POST", ApiNewsletterPath, JsonType, TRUE, em, JUndef, JUndef) :
     em \in EmailInputs}
  \cup {Request("POST", NewsletterPath, JsonType, TRUE, ValidEmail, nm, JUndef) :
          nm \in NameInputs}
  \cup {Request("POST", NewsletterPath, FormType, TRUE, em, BaseName, JUndef) :
          em \in {ValidEmail, JUndef, JStr(<<"a">>)}}
  \cup {Request("POST", ApiNewsletterPath, JsonType, FALSE, JUndef, JUndef, JUndef)}

ContactRequests ==
  {Request("POST", ApiContactPath, JsonType, TRUE, ValidEmail, BaseName, m) :
     m \in MessageInputs}
  \cup {Request("POST", ApiContactPath, JsonType, TRUE, ValidEmail, nm, BaseMessage) :
          nm \in NameInputs}
  \cup {Request("POST", ApiContactPath, JsonType, TRUE, em, BaseName, BaseMessage) :
          em \in {JUndef, JNum, JStr(<<"a">>), JStr(LongEmail(EmailMaxLen + 1))}}
  \cup {Request("POST", ApiContactPath, FormType, TRUE, em, BaseName, BaseMessage) :
          em \in {ValidEmail, JStr(<<"a">>)}}
  \cup {Request("POST", ApiContactPath, JsonType, FALSE, JUndef, JUndef, JUndef)}

\* the environment of a healthy deployment
GoodEnv == Env(TRUE, "ok", "none", NoUpstream)

\* environments that differ in the store binding only
StoreEnvs == {Env(TRUE, db, "none", NoUpstream) : db \in {"ok", "missing", "error"}}

BaseSubscribe ==
  Request("POST", ApiNewsletterPath, JsonType, TRUE, ValidEmail, JUndef, JUndef)

BaseContact ==
  Request("POST", ApiContactPath, JsonType, TRUE, ValidEmail, BaseName, BaseMessage)

NewsletterInputs ==
  {<<r, GoodEnv>> : r \in NewsletterRequests}
  \cup {<<BaseSubscribe, e>> : e \in StoreEnvs}

ContactInputs ==
  {<<r, GoodEnv>> : r \in ContactRequests}
  \cup {<<BaseContact, e>> : e \in StoreEnvs}

\* both endpoints, on the inputs of a few characters
ShortRequest(r) ==
  /\ Len(r.email.v) <= 3 + 2 * MaxPad
  /\ Len(r.name.v) <= 3
  /\ Len(r.message.v) <= 2 + 2 * MaxPad

FormInputs ==
  {in \in NewsletterInputs \cup ContactInputs : ShortRequest(in[1])}

(***************************************************************************)
(* The specifications of the newsletter and contact endpoints: SpecForms   *)
(* takes requests to both endpoints, SpecNewsletter and SpecContact take   *)
(* the requests of one endpoint, with inputs at the length limits.         *)
(***************************************************************************)
\* nothing has been rendered
NoDoc == [title |-> <<>>, description |-> <<>>, pathname |-> <<>>,
          rendered |-> FALSE, head |-> <<>>]

\* no call of the content fetcher is in progress
NoFetch ==
  [pc |-> "idle", route |-> "none", attempt |-> 0, timers |-> {},
   waits |-> <<>>, ends |-> <<>>, result |-> NoContent, threw |-> FALSE]

\* the newsletter block as generateHTMLTemplate emits it: the form shown
\* with its button enabled, the confirmation block and the message hidden
FreshForm ==
  [pc |-> "idle", email |-> JUndef, name |-> JUndef, disabled |-> FALSE,
   formShown |-> TRUE, successShown |-> FALSE, messageShown |-> FALSE,
   message |-> "none", last |-> "none"]

\* the variables of the worker and its store
server ==
  <<now, subscribers, subSeq, contacts, contactSeq, pageViews, pvSeq,
    sessions, events, evSeq, rec, recorded, req, env, resp, ret>>

Init ==
  /\ now = 0
  /\ subscribers = {}
  /\ subSeq = 0
  /\ contacts = {}
  /\ contactSeq = 0
  /\ pageViews = {}
  /\ pvSeq = 0
  /\ sessions = {}
  /\ events = {}
  /\ evSeq = 0
  /\ rec = [k \in 1..NumRecorders |-> Idle]
  /\ recorded = <<>>
  /\ req = NoRequest
  /\ env = NoEnv
  /\ resp = NoResponse
  /\ ret = NoReturn
  /\ doc = NoDoc
  /\ fetcher = NoFetch
  /\ form = FreshForm

\* the outcome of the fetch handler for each input, computed once
NewsletterOutcomes == [in \in NewsletterInputs |-> fetch(in[1], in[2])]

ContactOutcomes == [in \in ContactInputs |-> fetch(in[1], in[2])]

FetchNewsletter ==
  \E in \in NewsletterInputs : Respond(in[1], in[2], NewsletterOutcomes[in], 1)

FetchContact ==
  \E in \in ContactInputs : Respond(in[1], in[2], ContactOutcomes[in], 1)

FetchForms ==
  \E in \in FormInputs : Respond(in[1], in[2], fetch(in[1], in[2]), 1)

NextNewsletter == FetchNewsletter

NextContact == FetchContact

NextForms == FetchForms

SpecNewsletter == Init /\ [][NextNewsletter]_vars

SpecContact == Init /\ [][NextContact]_vars

SpecForms == Init /\ [][NextForms]_vars

(***************************************************************************)
(* Claims about the newsletter and contact endpoints.                      *)
(***************************************************************************)
NewsletterPost(r) ==
  r.method = "POST" /\ (r.path = ApiNewsletterPath \/ r.path = NewsletterPath)

ContactPost(r) == r.method = "POST" /\ r.path = ApiContactPath

SubscribeOk == NewsletterPost(req) /\ resp.status = 200 /\ resp.success

ContactOk == ContactPost(req) /\ resp.status = 200 /\ resp.success

\* k is E without its surrounding spaces, in lower case
IsFoldedOf(k, E) ==
  /\ Len(k) > 0 /\ k[1] # " " /\ k[Len(k)] # " "
  /\ \E l \in 0..(Len(E) - Len(k)) :
       \A i \in 1..Len(E) :
         IF i <= l \/ i > l + Len(k) THEN E[i] = " "
         ELSE k[i - l] = LowerChar(E[i])

\* C1: after successful subscribe requests that carry an address E, in any
\* letter case and with any surrounding spaces, the subscribers table holds
\* exactly one row for E, keyed by the lower-cased, trimmed form of E: no two
\* rows share a key, and the request handled last has its row.
C1_OneRowPerAddress ==
  /\ \A s, t \in subscribers : s.email = t.email => s = t
  /\ SubscribeOk => \E s \in subscribers : IsFoldedOf(s.email, req.email.v)

\* two subscribes of one address have succeeded, the second written with
\* capitals or spaces, and one row is left
C1_Witness ==
  /\ SubscribeOk
  /\ subSeq >= 2
  /\ Cardinality(subscribers) = 1
  /\ \A s \in subscribers : s.email # req.email.v

LacksAt(x) == \A i \in 1..Len(x.v) : x.v[i] # "@"

Missing(x) == x.t = "undefined" \/ x = JStr(<<>>)

FailsValidation(r) ==
  /\ r.parsable
  /\ \/ /\ NewsletterPost(r)
        /\ Missing(r.email) \/ LacksAt(r.email) \/ Len(r.email.v) > EmailMaxLen
     \/ /\ ContactPost(r)
        /\ \/ Missing(r.name) \/ Missing(r.email) \/ Missing(r.message)
           \/ LacksAt(r.email) \/ Len(r.email.v) > EmailMaxLen

\* C2: a POST to the newsletter or contact endpoint whose input fails
\* validation is answered with a 4xx JSON error and writes no row to any
\* table.
C2_InvalidInputRejected ==
  [][FailsValidation(req') =>
       /\ resp'.status \in 400..499
       /\ resp'.ctype = JsonType
       /\ UNCHANGED <<subscribers, contacts>>]_vars

\* m is the first cap characters of s without its surrounding spaces
IsCappedInnerOf(m, s, cap) ==
  \/ (\A i \in 1..Len(s) : s[i] = " ") /\ m = <<>>
  \/ \E l \in 0..(Len(s) - 1) :
       /\ s[l + 1] # " "
       /\ \A i \in 1..l : s[i] = " "
       /\ \E h \in (l + 1)..Len(s) :
            /\ s[h] # " "
            /\ \A i \in (h + 1)..Len(s) : s[i] = " "
            /\ Len(m) = Min(h - l, cap)
            /\ \A i \in 1..Len(m) : m[i] = s[l + i]

\* C6: for every accepted contact submission the stored message is the first
\* 1000 characters of the trimmed input message and the stored name the first
\* 100 characters of the trimmed input name; no stored message is longer than
\* 1000 characters.
C6_ContactFieldsCapped ==
  /\ \A c \in contacts : Len(c.message) <= MessageMaxLen
  /\ ContactOk =>
       \E c \in contacts :
         /\ c.id = contactSeq
         /\ IsCappedInnerOf(c.message, req.message.v, MessageMaxLen)
         /\ IsCappedInnerOf(c.name, req.name.v, NameMaxLen)

\* an accepted submission whose message was cut to 1000 characters
C6_Witness ==
  /\ ContactOk
  /\ Len(req.message.v) > MessageMaxLen + 1
  /\ \E c \in contacts : c.id = contactSeq /\ Len(c.message) = MessageMaxLen

(***************************************************************************)
(* Page requests: the paths, the outcomes of the upstream attempts and the *)
(* pages the upstream serves.                                              *)
(***************************************************************************)
Cand(raw, stripped) == [raw |-> raw, stripped |-> stripped]

\* what a content selector may match: nothing, or a container at either
\* side of the two length tests
Shapes == {NoMatch, Cand(101, 51), Cand(101, 50), Cand(100, 100)}

Bodies == {NoMatch, Cand(49, 49), Cand(50, 50)}

TagKinds == {"theme", "admin"}

TagSeqs(n) == UNION {[1..m -> TagKinds] : m \in 0..n}

Page(links, styles, containers, body) ==
  [links |-> links, styles |-> styles,
   cands |-> [i \in 1..Len(contentSelectors) |->
                IF i <= MaxContainers THEN containers[i]
                ELSE IF i = Len(contentSelectors) THEN body
                ELSE NoMatch],
   htmlLen |-> IF body = NoMatch THEN 49 ELSE 200]

PageSamples ==
  {Page(l, st, c, b) : l \in TagSeqs(MaxLinks), st \in TagSeqs(MaxStyles),
                       c \in [1..MaxContainers -> Shapes], b \in Bodies}

\* a page with an article of 150 characters and no styling
PlainPage ==
  Page(<<>>, <<>>,
       [i \in 1..MaxContainers |-> IF i = 1 THEN Cand(150, 150) ELSE NoMatch],
       Cand(200, 200))

Failures == {UTimeout, UNetwork, UHttpError, UBlank}

\* the outcomes of the attempts: the attempts after a served page are not made
Upstreams(pages) ==
  {[i \in 1..MAX_RETRIES |-> IF i = 1 THEN UPage(p) ELSE UUnused] : p \in pages}
  \cup {[i \in 1..MAX_RETRIES |-> IF i < MAX_RETRIES THEN f ELSE UPage(p)] :
          f \in Failures, p \in pages}
  \cup {[i \in 1..MAX_RETRIES |-> IF i < MAX_RETRIES THEN f ELSE g] :
          f \in Failures, g \in Failures}

AllFail == [i \in 1..MAX_RETRIES |-> UTimeout]

AllPaths ==
  {RouteKeys[i] : i \in 1..Len(RouteKeys)}
  \cup {UnknownPath, AdminPath, LogoPath, FaviconPath, OtherAssetPath,
        ApiNewsletterPath, ApiContactPath, ApiAnalyticsPath, ApiOtherPath}

Get(path) == Request("GET", path, "none", FALSE, JUndef, JUndef, JUndef)

Post(path) == Request("POST", path, JsonType, TRUE, JUndef, JUndef, JUndef)

ClientIp == <<"1", ".", "1", ".", "1", ".", "1">>

\* user agents: a short one, and two that bring address + user agent to
\* one character less than SessionDataLen and to SessionDataLen
UserAgents ==
  {Text("M", 5, "a"),
   Text("M", SessionDataLen - Len(ClientIp) - 1, "a"),
   Text("M", SessionDataLen - Len(ClientIp), "a")}

\* every path under both methods, upstream down and upstream up
RoutingInputs ==
  {<<r, Env(TRUE, "missing", "none", u)>> :
     r \in {Get(p) : p \in AllPaths} \cup {Post(p) : p \in AllPaths},
     u \in {AllFail} \cup Upstreams({PlainPage})}

\* the pages of the sample, served for a route with a fallback entry of its
\* own and for one without
ExtractionInputs ==
  {<<Get(p), Env(TRUE, "missing", "none", u)>> :
     p \in {RootPath, BlogPath},
     u \in {[i \in 1..MAX_RETRIES |-> IF i = 1 THEN UPage(q) ELSE UUnused] :
              q \in PageSamples}}

\* failing collaborators: no bindings, bindings that cannot be written, an
\* unusable execution context, a store that is missing or fails, a body
\* that does not parse
FaultInputs ==
  {<<r, e>> :
     r \in {Get(RootPath), Get(UnknownPath), Get(SitemapPath), Get(LogoPath),
            Get(ApiAnalyticsPath), BaseContact, BaseSubscribe,
            Request("POST", ApiContactPath, JsonType, FALSE, JUndef, JUndef, JUndef),
            Request("POST", NewsletterPath, JsonType, FALSE, JUndef, JUndef, JUndef)},
     e \in {NoEnv} \cup {Env(TRUE, "ok", f, AllFail) : f \in {"env", "ctx"}}
             \cup {Env(TRUE, db, "none", AllFail) : db \in {"missing", "error"}}}

\* page requests whose page view is recorded
TrackedInputs ==
  {<<From(Get(p), ClientIp, ua), Env(TRUE, "ok", "none", AllFail)>> :
     p \in {RootPath, SitemapPath}, ua \in UserAgents}

\* requests to the two form endpoints of the API under another method than
\* POST, with a body that would be accepted under POST, or with none
MethodInputs ==
  {<<[b EXCEPT !.method = m, !.parsable = ok], Env(TRUE, db, "none", AllFail)>> :
     b \in {BaseSubscribe, BaseContact, Post(ApiNewsletterPath),
            Post(ApiContactPath)},
     m \in {"GET", "PUT", "DELETE"}, ok \in BOOLEAN,
     db \in {"ok", "missing"}}

\* every path of the route table and an unlisted one, asked for while the
\* store fails, the upstream serving the page or not
DegradedInputs ==
  {<<Get(p), Env(TRUE, "error", "none", u)>> :
     p \in {RouteKeys[i] : i \in 1..Len(RouteKeys)} \cup {UnknownPath},
     u \in {AllFail,
            [i \in 1..MAX_RETRIES |-> IF i = 1 THEN UPage(PlainPage) ELSE UUnused]}}

PageInputs ==
  RoutingInputs \cup ExtractionInputs \cup FaultInputs \cup TrackedInputs
  \cup MethodInputs \cup DegradedInputs

\* a request has arrived and is not answered yet
Arrived == req # NoRequest /\ resp = NoResponse

InitPages ==
  /\ now = 0
  /\ subscribers = {}
  /\ subSeq = 0
  /\ contacts = {}
  /\ contactSeq = 0
  /\ pageViews = {}
  /\ pvSeq = 0
  /\ sessions = {}
  /\ events = {}
  /\ evSeq = 0
  /\ rec = [k \in 1..NumRecorders |-> Idle]
  /\ recorded = <<>>
  /\ \E in \in PageInputs : req = in[1] /\ env = in[2]
  /\ resp = NoResponse
  /\ ret = NoReturn
  /\ doc = NoDoc
  /\ fetcher = NoFetch
  /\ form = FreshForm

\* the fetch handler answers the request that has arrived
FetchPage == Arrived /\ Respond(req, env, fetch(req, env), 1)

Record == InsertPageView(1) \/ SelectSession(1) \/ WriteSession(1)

\* a store statement of the recording fails
RecordFailure == RecordFails(1)

NextPages == FetchPage \/ Record \/ RecordFailure

SpecPages == InitPages /\ [][NextPages]_vars

(***************************************************************************)
(* Claims about page requests.                                             *)
(***************************************************************************)
Answered == req # NoRequest /\ resp # NoResponse

Healthy == env.present /\ env.fault = "none"

UpstreamDown ==
  \A i \in 1..MAX_RETRIES :
    env.upstream[i].kind \in {"timeout", "network", "http-error", "blank"}

\* the request goes to the page branch of the router
PageRequest(r) ==
  /\ ~StartsWith(r.path, AssetsPrefix)
  /\ ~StartsWith(r.path, ApiPrefix)
  /\ ~(r.path = NewsletterPath /\ r.method = "POST")
  /\ r.path # SitemapPath

\* C3: for every logical route of the router's path table, when every
\* upstream attempt for the route fails, the page response is HTTP 200 and
\* its content is the static fallback entry of that very route.
C3_OwnFallbackWhenUpstreamDown ==
  (Answered /\ Healthy /\ UpstreamDown /\ PageRequest(req)) =>
    \A i \in 1..Len(ROUTES) :
      ROUTES[i][1] = req.path =>
        /\ resp.status = 200
        /\ resp.kind = "page"
        /\ resp.content.source = "fallback"
        /\ resp.content.key = ROUTES[i][2]

Unlisted(r) ==
  /\ \A i \in 1..Len(ROUTES) : ROUTES[i][1] # r.path
  /\ ~StartsWith(r.path, AssetsPrefix)
  /\ ~StartsWith(r.path, ApiPrefix)

PageServed == \E i \in 1..MAX_RETRIES : env.upstream[i].kind = "page"

\* the page of the first attempt that does not fail
ServedPage ==
  env.upstream[CHOOSE i \in 1..MAX_RETRIES :
                 /\ env.upstream[i].kind = "page"
                 /\ \A j \in 1..(i - 1) : env.upstream[j].kind # "page"].page

\* C5: whenever the main content extracted from a fetched page is shorter
\* than 50 characters, the content handed to the renderer is exactly the
\* content a total fetch failure gives for the same route, however many
\* stylesheet links and style blocks the page carries.
C5_ShortContentIsFallback ==
  (/\ Answered /\ Healthy /\ PageRequest(req) /\ PageServed
   /\ extractMainContent(ServedPage).len < 50) =>
    resp.content = fetch(req, [env EXCEPT !.upstream = AllFail]).resp.content

\* C7: the URLs the sitemap lists are exactly the keys of the path table
\* without the newsletter and sitemap paths, each listed once.
C7_SitemapListsTable ==
  resp.kind = "sitemap" =>
    LET listed == {resp.pages[i] : i \in 1..Len(resp.pages)}
    IN /\ listed = {ROUTES[i][1] : i \in 1..Len(ROUTES)}
                   \ {NewsletterPath, SitemapPath}
       /\ Cardinality(listed) = Len(resp.pages)

\* the sitemap has been served
C7_Witness ==
  /\ Answered /\ req.path = SitemapPath
  /\ resp.kind = "sitemap" /\ Len(resp.pages) > 0

\* C10: for every request and every failing collaborator (no bindings, no
\* store binding, a failing store, a failing upstream, an unparsable body)
\* the fetch handler returns an HTTP response: a request that has arrived
\* can be answered, and what answers it is a response with a status, never
\* an exception.
C10_AlwaysAResponse ==
  /\ Arrived => ENABLED FetchPage
  /\ Answered =>
       /\ resp.kind \in {"json", "page", "sitemap", "redirect", "error-page"}
       /\ resp.status \in 200..599

\* a throw outside the router's own try, answered with the error page
C10_Witness ==
  /\ Answered /\ env.fault = "env"
  /\ resp.kind = "error-page" /\ resp.status = 500

(***************************************************************************)
(* Sessions: page views recorded one after the other, by the tracker of    *)
(* analytics.js (through a page request) or by that of database.js.        *)
(***************************************************************************)
Visits == {From(Get(RootPath), ClientIp, ua) : ua \in UserAgents}

TrackingEnv == Env(TRUE, "ok", "none", AllFail)

VisitOutcomes == [r \in Visits |-> fetch(r, TrackingEnv)]

FetchVisit == \E r \in Visits : Respond(r, TrackingEnv, VisitOutcomes[r], 1)

CallTrackDb == \E r \in Visits : TrackDb(1, r)

NextSessions == FetchVisit \/ CallTrackDb \/ Record \/ Tick

SpecSessions == Init /\ [][NextSessions]_vars

SameClient(a, b) == a.impl = b.impl /\ a.ip = b.ip /\ a.ua = b.ua

\* C8: two page-view recordings with the same client address, user agent
\* and calendar day compute the same session identifier, the first creating
\* the session row and the second incrementing its page count; a recording
\* with the same address and user agent on the following calendar day
\* computes a different session identifier.
C8_SessionPerClientAndDay ==
  \A i, j \in 1..Len(recorded) :
    (i < j /\ SameClient(recorded[i], recorded[j])) =>
      /\ recorded[i].day = recorded[j].day =>
           /\ recorded[i].sid = recorded[j].sid
           /\ recorded[j].effect = "incremented"
           /\ (\A h \in 1..(i - 1) :
                 ~(SameClient(recorded[h], recorded[i])
                   /\ recorded[h].day = recorded[i].day))
                => recorded[i].effect = "created"
      /\ recorded[j].day = recorded[i].day + 1 =>
           recorded[i].sid # recorded[j].sid

(***************************************************************************)
(* Retention: visits, events, the passing of time and the two cleanups.    *)
(***************************************************************************)
Visit == From(Get(RootPath), ClientIp, Text("M", 5, "a"))

FetchOneVisit == Respond(Visit, TrackingEnv, fetch(Visit, TrackingEnv), 1)

LogEvent == trackEvent("newsletter_signup")

NextRetention ==
  FetchOneVisit \/ Record \/ LogEvent \/ scheduled \/ cleanupOldAnalytics
  \/ Tick

SpecRetention == Init /\ [][NextRetention]_vars

\* the moment a timestamp was written, in ticks
Instant(ts) == ts.date * TicksPerDay + ts.time

\* the tick the retention window starts at
WindowStart == now - RetentionDays * TicksPerDay

\* C9: a run of the retention cleanup deletes exactly the page-view and
\* session rows older than the 90-day window: every older row goes, every
\* newer row stays, and the other tables are left as they are.  (A row
\* written at the very tick the window starts at may go either way, and
\* the events table, which cleanupOldAnalytics prunes too, is only held to
\* keeping its newer rows.)
C9_CleanupDeletesOldRowsOnly ==
  [][(scheduled \/ cleanupOldAnalytics) =>
       /\ pageViews' \subseteq pageViews
       /\ \A p \in pageViews :
            /\ Instant(p.timestamp) < WindowStart => p \notin pageViews'
            /\ Instant(p.timestamp) > WindowStart => p \in pageViews'
       /\ sessions' \subseteq sessions
       /\ \A x \in sessions :
            /\ Instant(x.created_at) < WindowStart => x \notin sessions'
            /\ Instant(x.created_at) > WindowStart => x \in sessions'
       /\ events' \subseteq events
       /\ \A v \in events : Instant(v.timestamp) > WindowStart => v \in events'
       /\ UNCHANGED <<subscribers, contacts>>]_vars

(***************************************************************************)
(* The recording and the response.                                         *)
(***************************************************************************)
\* the recording the router handed to ctx.waitUntil
Recording == rec[1]

\* C11: the response to a page request does not depend on the page-view
\* recording: it is the response the handler gives with a working store,
\* whether the recording is still running, has succeeded, or has failed at
\* any of its store statements (the failure is caught, never surfaced).
C11_ResponseIgnoresRecording ==
  (Answered /\ Healthy /\ PageRequest(req)) =>
    /\ resp = fetch(req, [env EXCEPT !.db = "ok"]).resp
    /\ resp.status = 200
    /\ resp.kind = "page"

\* a page was served although its recording failed at the first statement
C11_Witness ==
  /\ Answered /\ Healthy /\ PageRequest(req)
  /\ env.db # "ok"
  /\ Len(recorded) = 1
  /\ recorded[1].failed = "view"
  /\ resp.status = 200

\* the class the router's first matching test gives the request: static
\* asset, API, newsletter POST, sitemap, or page
ClassOf(r) ==
  IF StartsWith(r.path, AssetsPrefix) THEN "asset"
  ELSE IF StartsWith(r.path, ApiPrefix) THEN "api"
  ELSE IF r.path = NewsletterPath /\ r.method = "POST" THEN "newsletter"
  ELSE IF r.path = SitemapPath THEN "sitemap"
  ELSE "page"

\* C12: the router classifies a request by the first matching test, in the
\* order static asset, API, newsletter POST, sitemap, page; a page view is
\* recorded and the upstream is fetched for page requests only, never for a
\* static-asset, API, newsletter-POST or sitemap request.
C12_OnlyPagesAreRecorded ==
  (Answered /\ Healthy /\ ClassOf(req) # "page") =>
    /\ resp.kind # "page"
    /\ resp.content = NoContent
    /\ Recording.pc = "idle"
    /\ recorded = <<>>
    /\ pageViews = {}

(***************************************************************************)
(* The form endpoints of the API under other methods.                      *)
(***************************************************************************)
FormEndpoint(r) == r.path \in {ApiNewsletterPath, ApiContactPath}

\* the same request without a body
Bodiless(r) == Request(r.method, r.path, "none", FALSE, JUndef, JUndef, JUndef)

\* C13: a request to the newsletter or contact endpoint of the API whose
\* method is not POST is answered 405; the answer is the one a request
\* without body gets, and no row is written to either table.
C13_OtherMethodsGet405 ==
  (Answered /\ Healthy /\ FormEndpoint(req) /\ req.method # "POST") =>
    /\ resp.status = 405
    /\ resp.kind = "json"
    /\ resp = fetch(Bodiless(req), env).resp
    /\ subscribers = {} /\ subSeq = 0
    /\ contacts = {} /\ contactSeq = 0

\* a GET carrying an acceptable contact body was refused, the store working
C13_Witness ==
  /\ Answered /\ Healthy
  /\ req = [BaseContact EXCEPT !.method = "GET"]
  /\ env.db = "ok"
  /\ resp.status = 405
  /\ contacts = {}

(***************************************************************************)
(* The persistence layer (utils/database.js), called with a store binding  *)
(* that works ("ok"), is absent ("missing"), or whose calls fail ("error").*)
(***************************************************************************)
StatsDays == 7

\* what an operation returns to its caller; email is the address a
\* successful subscribe or unsubscribe was made for
Returned(op, db, success, error) ==
  [op |-> op, db |-> db, email |-> <<>>, success |-> success,
   error |-> error, rows |-> {}, count |-> 0, raised |-> FALSE]

\* /^[^\s@]+@[^\s@]+\.[^\s@]+$/.test(email) && email.length <= 255
isValidEmail(email) ==
  /\ email.t = "string"
  /\ \A i \in 1..Len(email.v) : email.v[i] # " "
  /\ Cardinality({i \in 1..Len(email.v) : email.v[i] = "@"}) = 1
  /\ \E a, d \in 1..Len(email.v) :
       /\ email.v[a] = "@" /\ a > 1
       /\ email.v[d] = "." /\ d > a + 1 /\ d < Len(email.v)
  /\ Len(email.v) <= EmailMaxLen

\* the return value of subscribeToNewsletter
subscribeOutcome(db, email, name) ==
  IF db = "missing"
  THEN Returned("subscribe", db, FALSE, "Database not available")
  ELSE IF Falsy(email) \/ ~isValidEmail(email)
    THEN Returned("subscribe", db, FALSE, "Invalid email address")
  \* name.trim is not a function for a truthy value that is not a string;
  \* run() throws on a store error
  ELSE IF (~Falsy(name) /\ name.t # "string") \/ db = "error"
    THEN Returned("subscribe", db, FALSE, "Failed to subscribe")
  ELSE Returned("subscribe", db, TRUE, "none")

subscribeToNewsletter(db, email, name) ==
  LET out == subscribeOutcome(db, email, name)
  IN /\ ret' = IF out.success
                THEN [out EXCEPT !.email = ToLowerCase(Trim(email.v))]
                ELSE out
     /\ IF out.success
        THEN /\ subSeq < MaxSubscriberId
             /\ subscribers' = InsertOrReplaceSubscriber(
                  [email |-> ToLowerCase(Trim(email.v)),
                   name |-> IF Falsy(name) THEN <<>>
                            ELSE Substring0(Trim(name.v), NameMaxLen)])
             /\ subSeq' = subSeq + 1
        ELSE UNCHANGED <<subscribers, subSeq>>
     /\ UNCHANGED <<now, contacts, contactSeq, pageViews, pvSeq, sessions,
                    events, evSeq, rec, recorded, req, env, resp, doc, fetcher, form>>

\* the return value of unsubscribeFromNewsletter
unsubscribeOutcome(db, email) ==
  IF db = "missing"
  THEN Returned("unsubscribe", db, FALSE, "Database not available")
  \* email.trim throws for a value that is not a string
  ELSE IF email.t # "string" \/ db = "error"
    THEN Returned("unsubscribe", db, FALSE, "Failed to unsubscribe")
  ELSE Returned("unsubscribe", db, TRUE, "none")

\* DELETE FROM newsletter_subscribers WHERE email = ?
DeleteSubscriber(email) == {s \in subscribers : s.email # email}

\* UPDATE newsletter_subscribers SET unsubscribed = TRUE WHERE email = ?
SetUnsubscribed(email) ==
  {IF s.email = email THEN [s EXCEPT !.unsubscribed = TRUE] ELSE s :
     s \in subscribers}

unsubscribeFromNewsletter(db, email) ==
  LET out == unsubscribeOutcome(db, email)
  IN /\ ret' = IF out.success
                THEN [out EXCEPT !.email = ToLowerCase(Trim(email.v))]
                ELSE out
     /\ subscribers' = IF out.success
                       THEN SetUnsubscribed(ToLowerCase(Trim(email.v)))
                       ELSE subscribers
     /\ UNCHANGED <<now, subSeq, contacts, contactSeq, pageViews, pvSeq,
                    sessions, events, evSeq, rec, recorded, req, env, resp, doc, fetcher, form>>

\* the return value of saveContactSubmission
saveContactOutcome(db, name, email, message) ==
  IF db = "missing"
  THEN Returned("saveContact", db, FALSE, "Database not available")
  ELSE IF Falsy(name) \/ Falsy(email) \/ Falsy(message)
    THEN Returned("saveContact", db, FALSE, "All fields are required")
  ELSE IF ~isValidEmail(email)
    THEN Returned("saveContact", db, FALSE, "Invalid email address")
  ELSE IF name.t # "string" \/ message.t # "string" \/ db = "error"
    THEN Returned("saveContact", db, FALSE, "Failed to save submission")
  ELSE Returned("saveContact", db, TRUE, "none")

saveContactSubmission(db, name, email, message) ==
  LET out == saveContactOutcome(db, name, email, message)
  IN /\ ret' = out
     /\ IF out.success
        THEN /\ contactSeq < MaxContactId
             /\ contacts' = InsertContact(
                  [name |-> Substring0(Trim(name.v), NameMaxLen),
                   email |-> ToLowerCase(Trim(email.v)),
                   message |-> Substring0(Trim(message.v), MessageMaxLen)])
             /\ contactSeq' = contactSeq + 1
        ELSE UNCHANGED <<contacts, contactSeq>>
     /\ UNCHANGED <<now, subscribers, subSeq, pageViews, pvSeq, sessions,
                    events, evSeq, rec, recorded, req, env, resp, doc, fetcher, form>>

\* SELECT path, COUNT(*) as views FROM page_views WHERE timestamp > ?
\* GROUP BY path, the rows taken as a set
PageViewStats(t) ==
  LET since == toISOString(t - StatsDays * TicksPerDay)
      recent == {p \in pageViews : TextLess(since, p.timestamp)}
  IN {[path |-> q, views |-> Cardinality({p \in recent : p.path = q})] :
        q \in {p.path : p \in recent}}

getPageViewStats(db) ==
  /\ ret' = [Returned("getPageViewStats", db, db = "ok", "none")
               EXCEPT !.rows = IF db = "ok" THEN PageViewStats(now) ELSE {}]
  /\ UNCHANGED <<now, subscribers, subSeq, contacts, contactSeq, pageViews,
                 pvSeq, sessions, events, evSeq, rec, recorded, req, env, resp, doc, fetcher, form>>

\* SELECT COUNT(*) as count FROM newsletter_subscribers
\* WHERE unsubscribed = FALSE
SubscriberCount == Cardinality({s \in subscribers : ~s.unsubscribed})

getSubscriberCount(db) ==
  /\ ret' = [Returned("getSubscriberCount", db, db = "ok", "none")
               EXCEPT !.count = IF db = "ok" THEN SubscriberCount ELSE 0]
  /\ UNCHANGED <<now, subscribers, subSeq, contacts, contactSeq, pageViews,
                 pvSeq, sessions, events, evSeq, rec, recorded, req, env, resp, doc, fetcher, form>>

\* trackPageView of database.js called with request r: without a binding
\* it returns at once; otherwise recorder k runs its statements, each of
\* which fails when the binding's calls fail
callTrackPageView(k, db, r) ==
  /\ ret' = Returned("trackPageView", db, db = "ok", "none")
  /\ IF db = "missing"
     THEN UNCHANGED rec
     ELSE /\ CanRecord(k)
          /\ rec' = [rec EXCEPT ![k] = [trackPageViewDb(r.path, r, now)
                                          EXCEPT !.db = db]]
  /\ UNCHANGED <<now, subscribers, subSeq, contacts, contactSeq, pageViews,
                 pvSeq, sessions, events, evSeq, recorded, req, env, resp, doc, fetcher, form>>

(***************************************************************************)
(* The persistence layer under a missing or failing store.                 *)
(***************************************************************************)
Bindings == {"ok", "missing", "error"}

StoreAddress == JStr(<<"A", "@", "b", ".", "c">>)

\* addresses given to the persistence layer: valid, without a dot after the
\* at sign, with a space, absent, not a string
StoreEmails ==
  {StoreAddress, ValidEmail, JStr(<<" ", "A", "@", "b", ".", "c">>), JUndef,
   JNum}

StoreNames == {JUndef, JNum}

StoreMessages == {JNum, BaseMessage}

Subscribe ==
  \E db \in Bindings, email \in StoreEmails, name \in StoreNames :
    subscribeToNewsletter(db, email, name)

Unsubscribe ==
  \E db \in Bindings, email \in StoreEmails :
    unsubscribeFromNewsletter(db, email)

SaveContact ==
  \E db \in Bindings, name \in {JUndef, BaseName},
     message \in StoreMessages :
    saveContactSubmission(db, name, StoreAddress, message)

ReadStats == \E db \in Bindings : getPageViewStats(db)

ReadCount == \E db \in Bindings : getSubscriberCount(db)

Track ==
  /\ Len(recorded) < MaxTracked
  /\ \E db \in Bindings : callTrackPageView(2, db, Visit)

\* the statements of the recording, each of which may fail
RecordDb ==
  \/ InsertPageView(2) \/ SelectSession(2) \/ WriteSession(2)
  \/ RecordFails(2)

NextStore ==
  \/ Subscribe \/ Unsubscribe \/ SaveContact \/ ReadStats \/ ReadCount
  \/ Track \/ RecordDb

SpecStore == Init /\ [][NextStore]_vars

Tables == <<subscribers, contacts, pageViews, sessions, events>>

\* the operation that has just returned was called without a working store
FailedCall == ret'.op # "none" /\ ret'.db # "ok" /\ ret' # ret

\* C14: when the store binding is absent or a store call fails, no
\* operation of the persistence layer raises: the reads return no rows and a
\* count of zero, subscribe, unsubscribe and save-contact return a failure
\* with an error text, trackPageView returns normally; and the failed
\* operation leaves the tables as they were.
C14_FailuresAreAbsorbed ==
  [][/\ ~ret'.raised
     /\ FailedCall =>
          /\ Tables' = Tables
          /\ ret'.rows = {} /\ ret'.count = 0
          /\ ret'.op \in {"subscribe", "unsubscribe", "saveContact"} =>
               ~ret'.success /\ ret'.error # "none"
     \* a recording whose page view could not be inserted wrote nothing
     /\ \A i \in 1..Len(recorded') :
          recorded'[i].failed = "view" =>
            ~recorded'[i].viewed /\ recorded'[i].effect = "none"]_vars

WithErrorMessage ==
  {"TypeError: ctx", "Internal server error: TypeError: env"}

\* the handling of the request threw into the catch of fetch (the bindings
\* cannot be written) or into the catch of handleRequest (the execution
\* context is unusable where the router uses it)
CaughtAtBoundary ==
  /\ env.present
  /\ \/ env.fault = "env"
     \/ env.fault = "ctx" /\ ClassOf(req) \in {"page", "sitemap"}

\* C16: an unexpected failure caught at the outermost boundary is answered
\* 500, with the branded HTML error page for a page route and the generic
\* JSON error for an API route, and the body never carries the text of the
\* internal error.
C16_FailuresAreOpaque ==
  (Answered /\ CaughtAtBoundary) =>
    /\ resp.status = 500
    /\ ClassOf(req) = "page" => resp.kind = "error-page"
    /\ ClassOf(req) = "api" => resp.kind = "json"
    /\ resp.text \notin WithErrorMessage

(***************************************************************************)
(* The two encodings of a form.                                            *)
(***************************************************************************)
\* the same fields sent as JSON
AsJson(r) == [r EXCEPT !.ctype = JsonType]

\* a POST to a form handler whose body is a parsable URL-encoded form, the
\* fields of which are texts or absent
FormEncodedPost(r) ==
  /\ r.method = "POST"
  /\ r.path \in {NewsletterPath, ApiNewsletterPath, ApiContactPath}
  /\ r.ctype = FormType
  /\ r.parsable
  /\ \A f \in {r.email, r.name, r.message} : f.t \in {"string", "undefined"}

\* C17: the newsletter and the contact POST handlers accept either
\* encoding: a URL-encoded form gets the response, and stores the row, that
\* the same field values sent as JSON get.
C17_EitherEncoding ==
  (Answered /\ FormEncodedPost(req)) =>
    /\ resp = fetch(AsJson(req), env).resp
    /\ fetch(req, env).write = fetch(AsJson(req), env).write

(***************************************************************************)
(* WordPress admin paths.                                                  *)
(***************************************************************************)
\* ADMIN_PATHS (utils/wordpress.js)
ADMIN_PATHS ==
  {<<"/","w","p","-","a","d","m","i","n">>,
   <<"/","w","p","-","l","o","g","i","n",".","p","h","p">>,
   <<"/","w","p","-","c","o","n","t","e","n","t">>,
   <<"/","w","p","-","i","n","c","l","u","d","e","s">>,
   <<"/","x","m","l","r","p","c",".","p","h","p">>,
   <<"/","w","p","-","j","s","o","n">>,
   <<"/","w","p","-","c","r","o","n",".","p","h","p">>}

\* isAdminPath (utils/wordpress.js)
isAdminPath(pathname) == \E p \in ADMIN_PATHS : StartsWith(pathname, p)

\* createAdminResponse (utils/response.js): the minimal admin template
createAdminResponse(content, pathname, e) ==
  Response(200, "text/html; charset=utf-8", "admin", FALSE, "none", content,
           <<>>, "no-cache, no-store, must-revalidate",
           {"X-Content-Type-Options", "X-Frame-Options"})

\* C18: a request whose path starts with one of the admin prefixes is
\* served through the minimal admin template, without the custom header,
\* footer and newsletter block, with caching disabled; it is never rendered
\* as a branded page.
C18_AdminPathsUseAdminTemplate ==
  (Answered /\ Healthy /\ isAdminPath(req.path)) =>
    /\ resp.kind = "admin"
    /\ resp.kind # "page"
    /\ resp.cache = createAdminResponse(resp.content, req.path, env).cache

(***************************************************************************)
(* Subscribers: the subscribe of the router and of database.js and the     *)
(* unsubscribe of database.js; then the same with the two cleanups, events *)
(* and the passing of time.                                                *)
(***************************************************************************)
\* subscriptions posted to the router, the store working or failing
SignupInputs ==
  {<<Request("POST", NewsletterPath, JsonType, TRUE, em, JUndef, JUndef),
     Env(TRUE, db, "none", NoUpstream)>> :
     em \in {StoreAddress, ValidEmail}, db \in {"ok", "error"}}

SignupOutcomes == [in \in SignupInputs |-> fetch(in[1], in[2])]

FetchSignup ==
  \E in \in SignupInputs : Respond(in[1], in[2], SignupOutcomes[in], 1)

SubscribeDb ==
  \E db \in {"ok", "error"}, email \in {StoreAddress, ValidEmail} :
    subscribeToNewsletter(db, email, JUndef)

UnsubscribeDb ==
  \E db \in {"ok", "error"}, email \in {StoreAddress, ValidEmail} :
    unsubscribeFromNewsletter(db, email)

ReadSubscribers == getSubscriberCount("ok")

NextSubscribers == FetchSignup \/ SubscribeDb \/ UnsubscribeDb \/ ReadSubscribers

SpecSubscribers == Init /\ [][NextSubscribers]_vars

\* one visitor signing up and unsubscribing over the months
OneSignup ==
  Request("POST", NewsletterPath, JsonType, TRUE, StoreAddress, JUndef, JUndef)

FetchOneSignup == Respond(OneSignup, GoodEnv, fetch(OneSignup, GoodEnv), 1)

SubscribeOne == subscribeToNewsletter("ok", StoreAddress, JUndef)

UnsubscribeOne == unsubscribeFromNewsletter("ok", StoreAddress)

NextKeeping ==
  \/ FetchOneSignup \/ SubscribeOne \/ UnsubscribeOne
  \/ LogEvent \/ scheduled \/ cleanupOldAnalytics \/ Tick

SpecKeeping == Init /\ [][NextKeeping]_vars

\* the step is a successful subscribe of address a, through
\* subscribeToNewsletter or through the router
SubscribeStep(a) ==
  \E e \in {StoreAddress, ValidEmail} :
    /\ ToLowerCase(Trim(e.v)) = a
    /\ \/ subscribeToNewsletter("ok", e, JUndef) /\ ret'.success
       \/ \E in \in SignupInputs :
            /\ in[1].email = e
            /\ SignupOutcomes[in].resp.success
            /\ Respond(in[1], in[2], SignupOutcomes[in], 1)

\* the step is a successful unsubscribe of address a, which has a row
UnsubscribeStep(a) ==
  /\ \E s \in subscribers : s.email = a
  /\ \E e \in {StoreAddress, ValidEmail} :
       /\ ToLowerCase(Trim(e.v)) = a
       /\ unsubscribeFromNewsletter("ok", e)

\* the addresses of the subscribers
Addresses == {ToLowerCase(Trim(e.v)) : e \in {StoreAddress, ValidEmail}}

\* C19: whatever subscribes and unsubscribes came before, a successful
\* subscribe leaves the address with exactly one row, whose unsubscribed
\* flag is clear, and an unsubscribe of an address that has a row leaves
\* the flag of its row set.
C19_LastOperationDecidesFlag ==
  [][\A a \in Addresses :
       /\ SubscribeStep(a) =>
            /\ Cardinality({s \in subscribers' : s.email = a}) = 1
            /\ \A s \in subscribers' : s.email = a => ~s.unsubscribed
       /\ UnsubscribeStep(a) =>
            /\ \E s \in subscribers' : s.email = a
            /\ \A s \in subscribers' : s.email = a => s.unsubscribed]_vars

\* an address was subscribed, unsubscribed through database.js and then
\* subscribed again through the router: its only row is the second one
\* inserted, with the flag clear
C19_Witness ==
  /\ ret.op = "unsubscribe" /\ ret.success
  /\ resp.status = 200 /\ resp.success
  /\ subSeq = 2
  /\ \E s \in subscribers :
       /\ subscribers = {s}
       /\ s.id = 2
       /\ s.email = ret.email
       /\ ~s.unsubscribed

\* C20: the set of addresses in the subscribers table never shrinks: no
\* handler, no operation of the persistence layer and no cleanup removes a
\* subscriber.
C20_SubscribersNeverShrink ==
  [][{s.email : s \in subscribers} \subseteq {s.email : s \in subscribers'}]_vars

\* a cleanup has deleted an event older than the retention window while a
\* subscriber of the same age, who has unsubscribed, still has a row
C20_Witness ==
  /\ evSeq > 0 /\ events = {}
  /\ \E s \in subscribers :
       /\ s.unsubscribed
       /\ s.subscribed_at + RetentionDays * TicksPerDay < now


(***************************************************************************)
(* The document head (utils/response.js).  The renderer is given a title,  *)
(* a description and the pathname of the request URL.                      *)
(***************************************************************************)
\* the entities of escapeHtml's map
AMP == <<"&", "a", "m", "p", ";">>
LT == <<"&", "l", "t", ";">>
GT == <<"&", "g", "t", ";">>
QUOT == <<"&", "q", "u", "o", "t", ";">>
APOS == <<"&", "#", "0", "3", "9", ";">>

\* the replacement escapeHtml makes for one character
Entity(c) ==
  IF c = "&" THEN AMP
  ELSE IF c = "<" THEN LT
  ELSE IF c = ">" THEN GT
  ELSE IF c = "\"" THEN QUOT
  ELSE IF c = "'" THEN APOS
  ELSE <<c>>

\* escapeHtml: text.replace(/[&<>"']/g, m => map[m])
RECURSIVE escapeHtml(_)
escapeHtml(text) ==
  IF text = <<>> THEN <<>> ELSE Entity(Head(text)) \o escapeHtml(Tail(text))

\* what the URL parser makes of one character of a path: new URL(request.url)
\* percent-encodes the space, the double quote and the angle brackets, and
\* leaves the ampersand and the apostrophe as they are
PathChar(c) ==
  IF c = " " THEN <<"%", "2", "0">>
  ELSE IF c = "\"" THEN <<"%", "2", "2">>
  ELSE IF c = "<" THEN <<"%", "3", "C">>
  ELSE IF c = ">" THEN <<"%", "3", "E">>
  ELSE <<c>>

\* url.pathname of the request URL whose path was sent as raw
RECURSIVE Pathname(_)
Pathname(raw) ==
  IF raw = <<>> THEN <<>> ELSE PathChar(Head(raw)) \o Pathname(Tail(raw))

\* https://${domain}, domain being env.DOMAIN or its default
Origin == <<"h", "t", "t", "p", "s", ":", "/", "/", "g", "o", "e", "v", "e", "r", "g", "r", "e", "e", "n", ".", "s", "h", "o", "p">>

\* the texts generateHTMLTemplate puts into the head
generateHead(title, description, pathname) ==
  [description |-> escapeHtml(description),
   ogTitle |-> escapeHtml(title),
   ogDescription |-> escapeHtml(description),
   ogUrl |-> Origin \o pathname,
   twitterTitle |-> escapeHtml(title),
   twitterDescription |-> escapeHtml(description),
   ldDescription |-> escapeHtml(description),
   title |-> escapeHtml(title)]

\* createCustomResponse renders the page for the texts it was given
Render ==
  /\ ~doc.rendered
  /\ doc' = [doc EXCEPT !.rendered = TRUE,
                        !.head = generateHead(doc.title, doc.description,
                                              doc.pathname)]
  /\ UNCHANGED <<server, fetcher, form>>

\* the characters a text is made of
Alphabet == {"a", "&", "<", ">", "\"", "'"}

\* texts of at most MaxTextLen characters
Texts == UNION {[1..n -> Alphabet] : n \in 0..MaxTextLen}

\* request paths: a slash and a text
RawPaths == {<<"/">> \o t : t \in Texts}

InitRender ==
  /\ now = 0
  /\ subscribers = {}
  /\ subSeq = 0
  /\ contacts = {}
  /\ contactSeq = 0
  /\ pageViews = {}
  /\ pvSeq = 0
  /\ sessions = {}
  /\ events = {}
  /\ evSeq = 0
  /\ rec = [k \in 1..NumRecorders |-> Idle]
  /\ recorded = <<>>
  /\ req = NoRequest
  /\ env = NoEnv
  /\ resp = NoResponse
  /\ ret = NoReturn
  /\ \E t \in Texts, d \in Texts, raw \in RawPaths :
       doc = [NoDoc EXCEPT !.title = t, !.description = d,
                           !.pathname = Pathname(raw)]
  /\ fetcher = NoFetch
  /\ form = FreshForm

NextRender == Render

SpecRender == InitRender /\ [][NextRender]_vars

Entities == {AMP, LT, GT, QUOT, APOS}

\* no markup character stands in s, and every ampersand opens an entity
WellEscaped(s) ==
  \A i \in 1..Len(s) :
    /\ s[i] \notin {"<", ">", "\"", "'"}
    /\ s[i] = "&" =>
         \E e \in Entities :
           i + Len(e) - 1 <= Len(s) /\ SubSeq(s, i, i + Len(e) - 1) = e

\* C21: every user-influenced text the renderer places in the head (the
\* title, the description, and the request path in the page URL metadata) is
\* HTML-escaped: none of the characters & < > " ' of the input stands
\* unescaped in the emitted metadata.
C21_HeadIsEscaped ==
  doc.rendered =>
    \A f \in DOMAIN doc.head : WellEscaped(doc.head[f])


(***************************************************************************)
(* getPageContent step by step (utils/wordpress.js): the loop over the     *)
(* attempts, the abort timer of each attempt, the two awaits of an         *)
(* attempt (fetch, then response.text()) and the delay between attempts.   *)
(* fetcher.timers holds the attempts whose abort timer is pending.         *)
(***************************************************************************)
\* the routes a page is fetched for
FetchRoutes == {ROUTES[i][2] : i \in 1..Len(ROUTES)} \ {"sitemap"}

\* a page too short to be used
ThinPage == Page(<<>>, <<>>, [i \in 1..MaxContainers |-> NoMatch], NoMatch)

FetchPages == {PlainPage, ThinPage}

\* the loop's condition, with the timer armed at the head of the loop's body:
\* for (attempt = ..; attempt <= MAX_RETRIES; ..) { setTimeout(abort) ; fetch
\* and, once the loop is left, return getFallbackContent(route)
EnterAttempt(f, attempt) ==
  IF attempt <= MAX_RETRIES
  THEN [f EXCEPT !.pc = "fetch", !.attempt = attempt,
                 !.timers = f.timers \cup {attempt}]
  ELSE [f EXCEPT !.pc = "done", !.result = getFallbackContent(f.route)]

\* the pause the catch block takes after a failed attempt
RetryDelayAlways(attempt) == TRUE

\* if (attempt < MAX_RETRIES) await new Promise(... setTimeout ...)
RetryDelay(attempt) == attempt < MAX_RETRIES

\* the catch block of an attempt that ended as kind
Catch(f, kind) ==
  LET g == [f EXCEPT !.ends = Append(f.ends, kind)]
  IN IF RetryDelay(f.attempt)
     THEN [g EXCEPT !.pc = "wait", !.waits = Append(f.waits, f.attempt)]
     ELSE EnterAttempt(g, f.attempt + 1)

\* getPageContent(route, env) is called
CallGetPageContent ==
  /\ fetcher.pc = "idle"
  /\ \E route \in FetchRoutes :
       fetcher' = EnterAttempt([NoFetch EXCEPT !.route = route], 1)
  /\ UNCHANGED <<server, doc, form>>

\* fetch resolves: clearTimeout, then the status is looked at
FetchResolves ==
  /\ fetcher.pc = "fetch"
  /\ \E ok \in BOOLEAN :
       LET f == [fetcher EXCEPT !.timers = fetcher.timers \ {fetcher.attempt}]
       IN fetcher' = IF ok THEN [f EXCEPT !.pc = "text"]
                     ELSE Catch(f, "http-error")
  /\ UNCHANGED <<server, doc, form>>

\* fetch rejects with a network error: control passes to the catch block
FetchRejects ==
  /\ fetcher.pc = "fetch"
  /\ fetcher' = Catch(fetcher, "network")
  /\ UNCHANGED <<server, doc, form>>

\* an abort timer fires: controller.abort() rejects the fetch it was armed
\* for while that fetch is awaited, and does nothing otherwise
TimerFires ==
  /\ \E a \in fetcher.timers :
       LET f == [fetcher EXCEPT !.timers = fetcher.timers \ {a}]
       IN fetcher' = IF fetcher.pc = "fetch" /\ fetcher.attempt = a
                     THEN Catch(f, "timeout")
                     ELSE f
  /\ UNCHANGED <<server, doc, form>>

\* response.text() resolves: a blank text is thrown as an error, any other
\* text is processed and returned
TextResolves ==
  /\ fetcher.pc = "text"
  /\ \/ fetcher' = Catch(fetcher, "blank")
     \/ \E p \in FetchPages :
          fetcher' = [fetcher EXCEPT
                        !.pc = "done",
                        !.ends = Append(fetcher.ends, "page"),
                        !.result = processWordPressHTML(p, fetcher.route)]
  /\ UNCHANGED <<server, doc, form>>

\* the delay between attempts is over: the loop goes on
DelayEnds ==
  /\ fetcher.pc = "wait"
  /\ fetcher' = EnterAttempt(fetcher, fetcher.attempt + 1)
  /\ UNCHANGED <<server, doc, form>>

NextFetch ==
  \/ CallGetPageContent
  \/ FetchResolves
  \/ FetchRejects
  \/ TimerFires
  \/ TextResolves
  \/ DelayEnds

\* every timer fires and every delay ends; the upstream may stall
SpecFetchTimers ==
  Init /\ [][NextFetch]_vars /\ WF_vars(TimerFires) /\ WF_vars(DelayEnds)

\* moreover every await on the upstream ends, one way or the other
SpecFetchAnswered == Init /\ [][NextFetch]_vars /\ WF_vars(NextFetch)

FailedEnds == {"timeout", "network", "http-error", "blank"}

\* the number of attempts begun so far
AttemptsMade == fetcher.attempt

\* the attempts the call paused after
PausedAfter == {fetcher.waits[i] : i \in 1..Len(fetcher.waits)}

RetryDiscipline ==
  /\ AttemptsMade <= 2
  /\ AttemptsMade = 2 <=> (Len(fetcher.ends) >= 1 /\ fetcher.ends[1] \in FailedEnds
                           /\ fetcher.pc # "wait")
  /\ Len(fetcher.waits) <= 1
  /\ PausedAfter \subseteq {1}
  /\ fetcher.pc = "wait" => fetcher.attempt = 1
  /\ AttemptsMade = 2 => fetcher.waits = <<1>>
  /\ ~fetcher.threw
  /\ fetcher.pc = "done" =>
       /\ fetcher.result.source \in {"upstream", "fallback"}
       /\ Len(fetcher.ends) = AttemptsMade

AwaitingUpstream == fetcher.pc \in {"fetch", "text"}

\* every pending abort timer belongs to the attempt in progress
NoStaleTimer ==
  \A a \in fetcher.timers : a = fetcher.attempt /\ AwaitingUpstream

\* C29: the abort timer of an attempt guards the whole attempt: a stall of
\* the upstream, while the response is awaited or while its body is read, is
\* aborted in the end, so that a call always ends; and no abort timer is
\* pending once its attempt has ended.
C29_TimerGuardsAttempt ==
  /\ []NoStaleTimer
  /\ (fetcher.pc # "idle") ~> (fetcher.pc = "done")


(***************************************************************************)
(* The newsletter block of a page and its submit handler (getCustomJS in   *)
(* utils/response.js).  form.disabled is the submit button's, formShown    *)
(* the display of #newsletter-form-container, successShown that of         *)
(* #newsletter-success and messageShown that of #newsletter-message.       *)
(***************************************************************************)
\* what the visitor may have typed: the email input is required and of type
\* email, so the submit event is fired for a filled-in address only
FormEmails == {ValidEmail, StoreAddress, JStr(LongEmail(EmailMaxLen + 1))}

FormNames == {JStr(<<>>), JStr(<<"N">>)}

\* the worker that answers: with or without its bindings, its store working or not
FormEnvs ==
  {Env(TRUE, db, "none", NoUpstream) : db \in {"ok", "missing", "error"}}
  \cup {Env(FALSE, "missing", "none", NoUpstream)}

\* the success branch with the form left in place
showSuccessBesideForm(f) ==
  [f EXCEPT !.pc = "idle", !.last = "success", !.successShown = TRUE]

\* if (result.success): the form's container is hidden, the confirmation shown
showSuccess(f) ==
  [f EXCEPT !.pc = "idle", !.last = "success", !.formShown = FALSE,
            !.successShown = TRUE]

\* the else branch and the catch block: the message is shown as an error and
\* the button enabled again
showError(f, kind, text) ==
  [f EXCEPT !.pc = "idle", !.last = kind, !.message = text,
            !.messageShown = TRUE, !.disabled = FALSE]

\* the submit event: fired by the button, or by Enter in an input while the
\* button is enabled, of a form that is displayed
SubmitForm ==
  /\ form.pc = "idle"
  /\ ~form.disabled
  /\ form.formShown
  /\ \E em \in FormEmails, nm \in FormNames :
       form' = [form EXCEPT !.pc = "sent", !.email = em, !.name = nm,
                            !.disabled = TRUE, !.messageShown = FALSE]
  /\ UNCHANGED <<server, doc, fetcher>>

\* the worker answers the POST the script made to /api/newsletter
AnswerForm ==
  /\ form.pc = "sent"
  /\ \E e \in FormEnvs :
       LET r == Request("POST", ApiNewsletterPath, JsonType, TRUE, form.email,
                        form.name, JUndef)
           out == fetch(r, e)
       IN /\ req' = r
          /\ env' = e
          /\ resp' = out.resp
          /\ ApplyWrite(out.write)
  /\ form' = [form EXCEPT !.pc = "answered"]
  /\ UNCHANGED <<now, pageViews, pvSeq, sessions, events, evSeq, rec, recorded,
                 ret, doc, fetcher>>

\* await response.json() and the branches on result.success
HandleAnswer ==
  /\ form.pc = "answered"
  /\ form' = IF resp.kind # "json"
             THEN showError(form, "not-json", "Network error")
             ELSE IF resp.success THEN showSuccess(form)
             ELSE showError(form, "error", resp.text)
  /\ UNCHANGED <<server, doc, fetcher>>

\* the fetch of the script rejects
FormNetworkError ==
  /\ form.pc = "sent"
  /\ form' = showError(form, "network", "Network error")
  /\ UNCHANGED <<server, doc, fetcher>>

NextForm == SubmitForm \/ AnswerForm \/ HandleAnswer \/ FormNetworkError

SpecNewsletterForm == Init /\ [][NextForm]_vars

FormFailures == {"error", "not-json", "network"}

FormDiscipline ==
  /\ form.pc \in {"sent", "answered"} => form.disabled
  /\ form.pc = "idle" /\ form.last = "success" =>
       ~form.formShown /\ form.successShown
  /\ form.pc = "idle" /\ form.last \in FormFailures =>
       /\ form.messageShown
       /\ ~form.disabled
       /\ form.formShown
       /\ ~form.successShown

\* C23: the submit button is disabled from the start of a submission until
\* its outcome is known; a success hides the form's container and shows the
\* confirmation, and the form is never shown again; a failure (an error
\* result, a reply that is not JSON, a network error) shows the inline error
\* and enables the button again, the form visible and the confirmation hidden.
C23_FormStates ==
  /\ []FormDiscipline
  /\ [][/\ ~form.formShown => ~form'.formShown
        /\ form.successShown => form'.successShown /\ form'.pc = "idle"]_vars

C23_Witness ==
  /\ form.pc = "idle"
  /\ form.last = "success"
  /\ ~form.formShown
  /\ form.successShown
  /\ \E s \in subscribers : TRUE


\* a container passes both length tests of the selection
Qualifies(c) == c # NoMatch /\ c.raw > 100 /\ c.stripped > 50

\* C24: the main content is taken from the first container, in the order
\* main, article, entry-content div, post-content div, content div, #content
\* div, content section, body, whose trimmed text is longer than 100
\* characters and still longer than 50 once nested headers, footers and main
\* navigation are removed; a later container is never chosen when an earlier
\* one qualifies.
C24_FirstQualifyingContainer ==
  (/\ Answered /\ Healthy /\ PageRequest(req) /\ PageServed
   /\ resp.content.source = "upstream") =>
    \A i \in 1..Len(contentSelectors) :
      (/\ Qualifies(ServedPage.cands[i])
       /\ \A j \in 1..(i - 1) : ~Qualifies(ServedPage.cands[j])) =>
        /\ resp.content.from = contentSelectors[i]
        /\ extractMainContent(ServedPage).len = ServedPage.cands[i].stripped

\* a page whose first container fails a test and whose second passes, and
\* one whose first two containers both pass
C24_Witness ==
  /\ Answered /\ Healthy /\ PageRequest(req) /\ PageServed
  /\ resp.content.source = "upstream"
  /\ Qualifies(ServedPage.cands[1])
  /\ Qualifies(ServedPage.cands[2])
  /\ resp.content.from = contentSelectors[1]


(***************************************************************************)
(* The rows of contact_submissions and page_views over visits, contact     *)
(* submissions, both cleanups and the passing of time.                     *)
(***************************************************************************)
FetchOneContact == Respond(BaseContact, GoodEnv, fetch(BaseContact, GoodEnv), 1)

NextRows ==
  FetchOneVisit \/ Record \/ FetchOneContact \/ scheduled
  \/ cleanupOldAnalytics \/ Tick

SpecRows == Init /\ [][NextRows]_vars

\* C25: a row of contact_submissions or of page_views is never modified once
\* written, and only the retention cleanup removes rows of page_views.
C25_RowsAreWriteOnce ==
  [][/\ \A c \in contacts : c \in contacts'
     /\ \A p \in pageViews :
          \/ p \in pageViews'
          \/ /\ scheduled \/ cleanupOldAnalytics
             /\ \A q \in pageViews' : q.id # p.id]_vars

\* a second submission and a second visit arrive while earlier rows exist
C25_Witness ==
  /\ Cardinality(contacts) = 2
  /\ Cardinality(pageViews) >= 2


(***************************************************************************)
(* Concurrent recordings: the recordings of several requests run their     *)
(* statements interleaved, each statement being atomic in the store.       *)
(***************************************************************************)
\* a request for a page, whose recording is handed to ctx.waitUntil
VisitBy(k) == Respond(Visit, TrackingEnv, fetch(Visit, TrackingEnv), k)

FetchConcurrently == \E k \in 1..NumRecorders : VisitBy(k)

TrackDbConcurrently == \E k \in 1..NumRecorders : TrackDb(k, Visit)

RecordConcurrently ==
  \E k \in 1..NumRecorders :
    InsertPageView(k) \/ SelectSession(k) \/ WriteSession(k)

NextConcurrent == FetchConcurrently \/ TrackDbConcurrently \/ RecordConcurrently

SpecConcurrent == Init /\ [][NextConcurrent]_vars

\* the page views recorded under a session
ViewsOf(id) == {p \in pageViews : p.session_id = id}

\* C26: once the concurrent recordings have run to their end, without store
\* errors and without cleanup, the page_count of every session row is the
\* number of page_views rows that carry its session id.
C26_CountMatchesViews ==
  Active = {} =>
    \A s \in sessions : s.page_count = Cardinality(ViewsOf(s.id))


\* ip + userAgent + new Date().toDateString() of a finished recording
SessionDataOf(rd) ==
  HeaderOr(rd.ip, Unknown) \o rd.ua \o toDateString(rd.day * TicksPerDay)

\* the first 100 characters of a text
First100(s) == SubSeq(s, 1, IF Len(s) < 100 THEN Len(s) ELSE 100)

DbRecordings == {i \in 1..Len(recorded) : recorded[i].impl = "database"}

\* C27: in database.js the session id depends on the first 100 characters of
\* address + user agent + date string only: two recordings that agree on
\* those characters get the same id, even on different days.
C27_IdOfFirstHundred ==
  \A i, j \in DbRecordings :
    First100(SessionDataOf(recorded[i])) = First100(SessionDataOf(recorded[j]))
      => recorded[i].sid = recorded[j].sid

\* two recordings of database.js on different days with one id
C27_Witness ==
  \E i, j \in DbRecordings :
    /\ recorded[i].day # recorded[j].day
    /\ Len(SessionDataOf(recorded[i])) > 100
    /\ First100(SessionDataOf(recorded[i])) = First100(SessionDataOf(recorded[j]))
    /\ recorded[i].sid = recorded[j].sid


\* C28: every response of the fetch handler, the response for a missing
\* environment and the error response of the outer catch included, carries
\* X-Content-Type-Options, X-Frame-Options and Referrer-Policy.
C28_EveryResponseIsHardened ==
  Answered =>
    {"X-Content-Type-Options", "X-Frame-Options", "Referrer-Policy"}
      \subseteq resp.headers


(***************************************************************************)
(* Subscribing again: the table holds a row for the address, confirmed or  *)
(* not, unsubscribed or not, when the address subscribes again.            *)
(***************************************************************************)
\* the address of StoreAddress as the handlers store it
StoredAddress == ToLowerCase(Trim(StoreAddress.v))

AgainNames == {JUndef, JStr(<<"N">>)}

\* the row written by an earlier subscription, whose flags were set since
EarlierRow(name, confirmed, unsubscribed) ==
  [id |-> 1, email |-> StoredAddress, name |-> name, subscribed_at |-> 0,
   confirmed |-> confirmed, unsubscribed |-> unsubscribed]

InitAgain ==
  /\ now = 1
  /\ \E nm \in {<<>>, <<"O">>}, c \in BOOLEAN, u \in BOOLEAN :
       subscribers = {EarlierRow(nm, c, u)}
  /\ subSeq = 1
  /\ contacts = {}
  /\ contactSeq = 0
  /\ pageViews = {}
  /\ pvSeq = 0
  /\ sessions = {}
  /\ events = {}
  /\ evSeq = 0
  /\ rec = [k \in 1..NumRecorders |-> Idle]
  /\ recorded = <<>>
  /\ req = NoRequest
  /\ env = NoEnv
  /\ resp = NoResponse
  /\ ret = NoReturn
  /\ doc = NoDoc
  /\ fetcher = NoFetch
  /\ form = FreshForm

AgainRequest(nm) ==
  Request("POST", ApiNewsletterPath, JsonType, TRUE, StoreAddress, nm, JUndef)

\* the address subscribes again through the router
FetchAgain(nm) ==
  Respond(AgainRequest(nm), GoodEnv, fetch(AgainRequest(nm), GoodEnv), 1)

\* the address subscribes again through the persistence layer
SubscribeAgain(nm) == subscribeToNewsletter("ok", StoreAddress, nm)

FetchSubscribeAgain == \E nm \in AgainNames : FetchAgain(nm)

SubscribeDbAgain == \E nm \in AgainNames : SubscribeAgain(nm)

NextAgain ==
  FetchSubscribeAgain \/ SubscribeDbAgain \/ UnsubscribeOne \/ Tick

SpecAgain == InitAgain /\ [][NextAgain]_vars

\* the rows of the address
RowsOf(rows) == {s \in rows : s.email = StoredAddress}

\* C30: a subscribe request for an address that has a row replaces the whole
\* row: timestamp and name are overwritten and unsubscribed and confirmed are
\* FALSE again, so that a confirmed subscriber is unconfirmed after
\* subscribing again.
C30_ResubscribeReplacesRow ==
  [][\A nm \in AgainNames :
       ((FetchAgain(nm) \/ SubscribeAgain(nm)) /\ RowsOf(subscribers) # {}) =>
         /\ Cardinality(RowsOf(subscribers')) = 1
         /\ \A s \in RowsOf(subscribers') :
              /\ s \notin subscribers
              /\ s.subscribed_at = now
              /\ s.name = (IF nm = JUndef THEN <<>> ELSE nm.v)
              /\ ~s.confirmed
              /\ ~s.unsubscribed]_vars

\* the address has subscribed again, at a later time and under a new name
C30_Witness ==
  /\ subSeq = 2
  /\ \E s \in subscribers :
       /\ s.email = StoredAddress
       /\ s.id = 2
       /\ s.subscribed_at > 1
       /\ s.name = <<"N">>
       /\ ~s.confirmed


\* recordings of database.js alone, for user agents at either side of the cut
LongVisits ==
  {From(Get(RootPath), ClientIp, ua) :
     ua \in {Text("M", SessionDataLen - Len(ClientIp) - 1, "a"),
             Text("M", SessionDataLen - Len(ClientIp), "a")}}

CallTrackDbLong == \E r \in LongVisits : TrackDb(1, r)

NextSessionIds == CallTrackDbLong \/ Record \/ Tick

SpecSessionIds == Init /\ [][NextSessionIds]_vars

====
